---------------------------- MODULE Spec2Model ----------------------------
(***************************************************************************)
(* Model of the streaming comparator of stream-diff                        *)
(* (internal/pkg/comparator/comparator.go), of its schema generator        *)
(* (internal/pkg/schema/generator.go) and of the offline pattern detector  *)
(* (internal/pkg/patterndetection/offline.go).                             *)
(*                                                                         *)
(* Spec      : StreamComparator.Compare over two record sources, one       *)
(*             action per loop iteration / return path; what each Read     *)
(*             returns is an input of the action.                          *)
(* SpecCmp   : compareRecords / valuesEqual applied to pairs of records.   *)
(* SpecInfer : inferType applied to lists of values.                       *)
(* SpecFlat  : CollectFieldValues on one record, one action per work item. *)
(* SpecOffline : OfflineDetector.DetectPatterns applied to lists of values.*)
(* SpecGen   : GenerateWithPatternDetection, one action per Read.          *)
(* SpecDetect : the detector factory, then DetectPatterns of the detector  *)
(*             it returned (no-op, offline, online).                       *)
(* SpecStream : the stream generator (generator/stream_generator.go): its  *)
(*             goroutine, Reads and calls of Close interleaved;            *)
(*             SpecStreamFair adds the scheduling of the goroutines.       *)
(***************************************************************************)
EXTENDS Integers, Sequences, FiniteSets, TLC

(***************************************************************************)
(* Bounds of the model.                                                    *)
(***************************************************************************)
\* most records a source delivers before its EOF or read error
MaxLen == 2
\* last reading of the wall clock (seconds after the start of Compare)
MaxTime == 2

(***************************************************************************)
(* Values: interface{} held by a datareader.Record.  t is the native type, *)
(* n the integer payload, s the string payload.                            *)
(***************************************************************************)
Nil == [t |-> "nil", n |-> 0, s |-> ""]

IntV(i) == [t |-> "int", n |-> i, s |-> ""]

StrV(x) == [t |-> "str", n |-> 0, s |-> x]

\* a nested map[string]interface{} and a []interface{}
MapV(m) == [t |-> "map", m |-> m]

ArrV(a) == [t |-> "arr", a |-> a]

Digit(d) == CASE d = 0 -> "0" [] d = 1 -> "1" [] d = 2 -> "2" [] d = 3 -> "3"
              [] d = 4 -> "4" [] d = 5 -> "5" [] d = 6 -> "6" [] d = 7 -> "7"
              [] d = 8 -> "8" [] d = 9 -> "9"

RECURSIVE IntStr(_)
IntStr(i) == IF i < 0 THEN "-" \o IntStr(0 - i)
             ELSE IF i < 10 THEN Digit(i)
             ELSE IntStr(i \div 10) \o Digit(i % 10)

\* the field names of nested maps, in the sorted order fmt prints map keys
SortedNames == <<"", "a", "name">>

RECURSIVE JoinTexts(_)
JoinTexts(q) == IF Len(q) = 0 THEN ""
                ELSE IF Len(q) = 1 THEN q[1]
                ELSE q[1] \o " " \o JoinTexts(Tail(q))

\* fmt.Sprintf("%v", v)
RECURSIVE Sprintf(_)
Sprintf(v) ==
  CASE v.t = "nil" -> "<nil>"
    [] v.t = "int" -> IntStr(v.n)
    [] v.t = "str" -> v.s
    [] v.t = "arr" ->
         "[" \o JoinTexts([i \in 1..Len(v.a) |-> Sprintf(v.a[i])]) \o "]"
    [] v.t = "map" ->
         LET ks == SelectSeq(SortedNames, LAMBDA k : k \in DOMAIN v.m)
         IN "map[" \o JoinTexts([i \in 1..Len(ks) |->
                                  ks[i] \o ":" \o Sprintf(v.m[ks[i]])])
                  \o "]"

(***************************************************************************)
(* Helpers on sets and sequences.                                          *)
(***************************************************************************)
ToSet(q) == {q[i] : i \in 1..Len(q)}

\* every order in which a Go map iteration can visit the elements of S
Perms(S) == {q \in [1..Cardinality(S) -> S] : ToSet(q) = S}

\* faulty variant: a stored key replaces the map's other keys
MapPut_Evicting(m, k, r) == [x \in {k} |-> r]

\* m[k] = r on a Go map
MapPut(m, k, r) == [x \in (DOMAIN m) \cup {k} |-> IF x = k THEN r ELSE m[x]]

EmptyMap == [x \in {} |-> Nil]

(***************************************************************************)
(* Records the sources deliver.                                            *)
(***************************************************************************)
RecA == [id |-> IntV(1), v |-> StrV("a")]

RecB == [id |-> StrV("1"), v |-> StrV("b"), w |-> StrV("a")]

RecC == [id |-> IntV(2), v |-> StrV("a")]

RecD == [id |-> StrV("3"), v |-> StrV("a")]

RecNoKey == [v |-> StrV("a")]

RecEmptyKey == [id |-> StrV(""), v |-> StrV("a")]

RecordPool == {RecA, RecB, RecC, RecD, RecNoKey, RecEmptyKey}

\* records handed to compareRecords on its own: every record over CmpFields
CmpFields == {"id", "v"}

CmpValues == {Nil, IntV(1), StrV("1"), StrV("<nil>"), StrV("a")}

CmpRecords == UNION {[D -> CmpValues] : D \in SUBSET CmpFields}

\* errors other than io.EOF a Read can return
ReadErrors == {"io: read failed", "parse error"}

\* errors the periodic callback can return
CallbackErrors == {"disk full", "cancelled"}

NoError == [msg |-> "none", cause |-> "none"]

\* fmt.Errorf(msg + ": %w", cause)
Errorf(msg, cause) == [msg |-> msg, cause |-> cause]

\* config.PeriodicConfig
PeriodicConfigs == [Enabled : BOOLEAN, TimeInterval : {0, 1},
                    RecordInterval : {0, 1, 2}]

KeyFields == {"id", ""}

NoResult == [none |-> TRUE]

(***************************************************************************)
(* State of one call of Compare.                                           *)
(***************************************************************************)
VARIABLES
  periodicConfig, keyField,
  onPeriodicDiff,          \* TRUE iff a callback was given (non-nil)
  pc,                      \* "phase1", "phase2", "done", "failed"
  source1Records, source2Records,
  source1Count, source2Count,
  recordsProcessed, lastReportRecords,
  lastReportTime,
  now,                     \* latest reading of the wall clock
  lastRead,                \* latest Read: source, outcome, record
  checked,                 \* latest trigger evaluation: clock, verdict and
                           \* what the callback returned
  callbackCount,           \* invocations of onPeriodicDiff so far
  lastReport,              \* the result handed to the latest invocation
  readLog,                 \* every Read issued: source and outcome
  result, err,             \* what Compare returned
  cmpRecord1, cmpRecord2,  \* arguments of a call of compareRecords
  cmpDiffs, cmpDone        \* what the call returned, and whether it has

compareVars == <<periodicConfig, keyField, onPeriodicDiff, pc, source1Records,
                 source2Records, source1Count, source2Count,
                 recordsProcessed, lastReportRecords, lastReportTime, now,
                 lastRead, checked, callbackCount, lastReport, readLog,
                 result, err>>

cmpVars == <<cmpRecord1, cmpRecord2, cmpDiffs, cmpDone>>

(***************************************************************************)
(* State of the schema generator (internal/pkg/schema/generator.go) and of *)
(* the calls of its parts on their own.                                    *)
(***************************************************************************)
VARIABLES
  inferValues,             \* argument of a call of inferType
  inferResult, inferDone,  \* what the call returned, and whether it has
  offType, offValues,      \* arguments of a call of the offline detector
  offMatchers, offDone,    \* what the call returned, and whether it has
  flatRecord,              \* the record handed to CollectFieldValues
  flatQueue, flatValues,   \* its work queue and the fieldValues map
  genSampler, genPattern,  \* arguments of GenerateWithPatternDetection
  genPc,                   \* "sampling", "done", "failed"
  genRecords,              \* the records sampled so far
  genReads,                \* Reads issued on the source so far
  genLastOut,              \* what the latest Read returned
  genReadsAtEOF,           \* Reads issued when io.EOF came back (0: not yet)
  genWarnings,             \* fields a detection warning was printed for
  genSchema, genErr        \* what GenerateWithPatternDetection returned

VARIABLES
  detConfig,               \* the configuration of a detector factory
  detType, detValues,      \* arguments of a call of DetectPatterns
  detPc,                   \* "create", "detect", "done", "failed"
  detDetector,             \* the detector CreateDetector returned
  detReply,                \* what the API answered to the online detector
  detMatchers, detErr      \* what the latest call returned

VARIABLES
  sgConfig,                \* MaxRecords, BufferSize, RateLimited of a generator
  recordCh,                \* the records buffered in the channel recordCh
  recordChClosed,          \* close(recordCh) has run
  stopChClosed,            \* close(stopCh) has run
  closed,                  \* the field closed
  mu,                      \* the caller of Close holding mu (0: nobody)
  wg,                      \* the counter of the WaitGroup
  recordID,                \* the local recordID of generateRecords
  genPos,                  \* where generateRecords is: "top", "tick",
                           \* "send", "exit", "closedCh", "done"
  closePos,                \* where each call of Close is: "idle", "lock",
                           \* "wait", "drain", "returned"
  sgReads                  \* what the Reads returned so far, in order

inferVars == <<inferValues, inferResult, inferDone>>

offVars == <<offType, offValues, offMatchers, offDone>>

flatVars == <<flatRecord, flatQueue, flatValues>>

genVars == <<genSampler, genPattern, genPc, genRecords, genReads,
             genLastOut, genReadsAtEOF, genWarnings, genSchema, genErr>>

schemaVars == <<inferVars, offVars, flatVars, genVars>>

detVars == <<detConfig, detType, detValues, detPc, detDetector, detReply,
             detMatchers, detErr>>

streamVars == <<sgConfig, recordCh, recordChClosed, stopChClosed, closed, mu,
                wg, recordID, genPos, closePos, sgReads>>

toolVars == <<detVars, streamVars>>

vars == <<compareVars, cmpVars, toolVars, schemaVars, toolVars>>

(***************************************************************************)
(* StreamComparator.getRecordKey                                           *)
(***************************************************************************)
getRecordKey(kf, record) ==
  IF kf = "" THEN ""
  ELSE IF kf \notin DOMAIN record THEN ""
  ELSE Sprintf(record[kf])

(***************************************************************************)
(* StreamComparator.shouldReportPeriodic; t is time.Now() at the call.     *)
(***************************************************************************)
\* faulty variant: the record interval must be exceeded, not reached
shouldReportPeriodic_Exceeds(cfg, t, lastTime, processed, lastRecords) ==
  IF ~cfg.Enabled THEN FALSE
  ELSE IF cfg.TimeInterval > 0 /\ t - lastTime >= cfg.TimeInterval THEN TRUE
  ELSE IF cfg.RecordInterval > 0 /\ processed - lastRecords > cfg.RecordInterval
       THEN TRUE
  ELSE FALSE

shouldReportPeriodic(cfg, t, lastTime, processed, lastRecords) ==
  IF ~cfg.Enabled THEN FALSE
  ELSE IF cfg.TimeInterval > 0 /\ t - lastTime >= cfg.TimeInterval THEN TRUE
  ELSE IF cfg.RecordInterval > 0 /\ processed - lastRecords >= cfg.RecordInterval
       THEN TRUE
  ELSE FALSE

(***************************************************************************)
(* StreamComparator.valuesEqual                                            *)
(***************************************************************************)
\* faulty variant: the values are compared with their native types
valuesEqual_Typed(v1, v2) == v1 = v2

valuesEqual(v1, v2) ==
  IF v1.t = "nil" /\ v2.t = "nil" THEN TRUE
  ELSE IF v1.t = "nil" \/ v2.t = "nil" THEN FALSE
  ELSE Sprintf(v1) = Sprintf(v2)

\* record[field] on a Go map: the zero value nil when the field is absent
Lookup(record, field) == IF field \in DOMAIN record THEN record[field] ELSE Nil

\* the FieldDiff compareRecords appends for a field
FieldDiff(record1, record2, field) ==
  [Field |-> field, Source1Value |-> Lookup(record1, field),
   Source2Value |-> Lookup(record2, field)]

\* the fields for which compareRecords appends a FieldDiff
DiffFields(record1, record2) ==
  {f \in (DOMAIN record1) \cup (DOMAIN record2) :
     \/ f \notin DOMAIN record1
     \/ f \notin DOMAIN record2
     \/ ~valuesEqual(record1[f], record2[f])}

(***************************************************************************)
(* StreamComparator.compareRecords: the diff lists it can return, one per  *)
(* iteration order of the allFields map.                                   *)
(***************************************************************************)
compareRecords(record1, record2) ==
  {[i \in 1..Len(q) |-> FieldDiff(record1, record2, q[i])] :
     q \in Perms(DiffFields(record1, record2))}

(***************************************************************************)
(* StreamComparator.generateResult: the results it can return, one per     *)
(* iteration order of the maps it ranges over.                             *)
(***************************************************************************)
\* faulty variant: the loop appends every key of m
KeysOnlyIn_EveryKey(m, other) == DOMAIN m

\* faulty variant: the loop's test is inverted
KeysOnlyIn_Inverted(m, other) == {k \in DOMAIN m : k \in DOMAIN other}

\* the keys appended by the loop over m whose test is "not in other"
KeysOnlyIn(m, other) == {k \in DOMAIN m : k \notin DOMAIN other}

\* the keys for which the last loop increments MatchingKeys
MatchingKeySet(m1, m2) == {k \in DOMAIN m1 : k \in DOMAIN m2}

\* faulty variant: IdenticalRows is incremented for every matching key
IdenticalKeySet_EveryMatch(m1, m2) == MatchingKeySet(m1, m2)

\* the matching keys for which len(diffs) == 0
IdenticalKeySet(m1, m2) ==
  {k \in MatchingKeySet(m1, m2) : DiffFields(m1[k], m2[k]) = {}}

\* the matching keys that get a ValueDiffs entry
DifferingKeySet(m1, m2) ==
  {k \in MatchingKeySet(m1, m2) : DiffFields(m1[k], m2[k]) # {}}

generateResult(m1, m2, processed, count1, count2, isPeriodic) ==
  LET both  == MatchingKeySet(m1, m2)
      same  == IdenticalKeySet(m1, m2)
      diff  == DifferingKeySet(m1, m2)
  IN {[RecordsProcessed  |-> processed,
       Source1Records    |-> count1,
       Source2Records    |-> count2,
       MatchingKeys      |-> Cardinality(both),
       IdenticalRows     |-> Cardinality(same),
       KeysOnlyInSource1 |-> k1,
       KeysOnlyInSource2 |-> k2,
       ValueDiffs        |-> vd,
       IsPeriodicReport  |-> isPeriodic] :
        k1 \in Perms(KeysOnlyIn(m1, m2)), k2 \in Perms(KeysOnlyIn(m2, m1)),
        vd \in {f \in [diff -> UNION {compareRecords(m1[k], m2[k]) : k \in diff}] :
                  \A k \in diff : f[k] \in compareRecords(m1[k], m2[k])}}

\* faulty variant: the periodic path passes isPeriodicReport = false
generatePeriodicResult_NotFlagged(m1, m2, processed, count1, count2) ==
  generateResult(m1, m2, processed, count1, count2, FALSE)

generatePeriodicResult(m1, m2, processed, count1, count2) ==
  generateResult(m1, m2, processed, count1, count2, TRUE)

generateFinalResult(m1, m2, processed, count1, count2) ==
  generateResult(m1, m2, processed, count1, count2, FALSE)

(***************************************************************************)
(* NewStreamComparator and the first lines of Compare.                     *)
(***************************************************************************)
CompareStart ==
  /\ pc = "phase1"
  /\ source1Records = EmptyMap
  /\ source2Records = EmptyMap
  /\ source1Count = 0
  /\ source2Count = 0
  /\ recordsProcessed = 0
  /\ lastReportRecords = 0
  /\ lastReportTime = 0
  /\ now = 0
  /\ lastRead = [src |-> 0, out |-> "none", record |-> EmptyMap]
  /\ checked = [at |-> 0, fire |-> FALSE, cb |-> "none"]
  /\ callbackCount = 0
  /\ lastReport = NoResult
  /\ readLog = <<>>
  /\ result = NoResult
  /\ err = NoError

CmpIdle ==
  /\ cmpRecord1 = EmptyMap
  /\ cmpRecord2 = EmptyMap
  /\ cmpDiffs = <<>>
  /\ cmpDone = FALSE

InferIdle ==
  /\ inferValues = <<>>
  /\ inferResult = ""
  /\ inferDone = FALSE

OffIdle ==
  /\ offType = ""
  /\ offValues = <<>>
  /\ offMatchers = <<>>
  /\ offDone = FALSE

FlatIdle ==
  /\ flatRecord = EmptyMap
  /\ flatQueue = <<>>
  /\ flatValues = EmptyMap

NoSchema == [none |-> TRUE]

\* the first lines of GenerateWithPatternDetection
GenerateStart ==
  /\ genPc = "sampling"
  /\ genRecords = <<>>
  /\ genReads = 0
  /\ genLastOut = "none"
  /\ genReadsAtEOF = 0
  /\ genWarnings = {}
  /\ genSchema = NoSchema
  /\ genErr = NoError

GenIdle ==
  /\ genSampler = [present |-> FALSE, SampleSize |-> 0]
  /\ genPattern = [present |-> FALSE, Enabled |-> FALSE, Mode |-> "",
                   OnlineAPI |-> "nil"]
  /\ GenerateStart

SchemaIdle == InferIdle /\ OffIdle /\ FlatIdle /\ GenIdle

NoReply == [kind |-> "none", text |-> ""]

\* no detector factory is in use
DetIdle ==
  /\ detConfig = [present |-> FALSE, Enabled |-> FALSE, Mode |-> "",
                  OnlineAPI |-> "nil"]
  /\ detType = ""
  /\ detValues = <<>>
  /\ detPc = "idle"
  /\ detDetector = "none"
  /\ detReply = NoReply
  /\ detMatchers = <<>>
  /\ detErr = NoError

\* the callers of Close
Closers == {1, 2}

\* no stream generator exists
StreamIdle ==
  /\ sgConfig = [MaxRecords |-> 0, BufferSize |-> 1, RateLimited |-> FALSE]
  /\ recordCh = <<>>
  /\ recordChClosed = FALSE
  /\ stopChClosed = FALSE
  /\ closed = FALSE
  /\ mu = 0
  /\ wg = 0
  /\ recordID = 0
  /\ genPos = "none"
  /\ closePos = [c \in Closers |-> "idle"]
  /\ sgReads = <<>>

ToolIdle == DetIdle /\ StreamIdle

\* no Compare is under way
CompareIdle ==
  /\ periodicConfig = [Enabled |-> FALSE, TimeInterval |-> 0,
                       RecordInterval |-> 0]
  /\ keyField = "id"
  /\ onPeriodicDiff = FALSE
  /\ CompareStart

Init ==
  /\ periodicConfig \in PeriodicConfigs
  /\ keyField \in KeyFields
  /\ onPeriodicDiff \in BOOLEAN
  /\ CompareStart
  /\ CmpIdle
  /\ ToolIdle
  /\ SchemaIdle

\* the readings time.Now() can give after an earlier reading t
ClockAfter(t) == t..(IF t < MaxTime THEN t + 1 ELSE t)

(***************************************************************************)
(* What follows the callback: its error is returned, otherwise the         *)
(* since-last-report state is reset.  outcome is what the callback         *)
(* returned ("ok" also stands for no callback), t the clock at the check,  *)
(* t2 the reading of time.Now() after the callback, n recordsProcessed.    *)
(***************************************************************************)
\* faulty variant: the callback's error is dropped
AfterCallback_ErrorDropped(outcome, t, t2, n) ==
  /\ now' = t2
  /\ lastReportTime' = t2
  /\ lastReportRecords' = n
  /\ UNCHANGED <<pc, err>>

\* faulty variant: the since-last-report state is reset before the callback's
\* error is looked at
AfterCallback_ResetFirst(outcome, t, t2, n) ==
  /\ now' = t2
  /\ lastReportTime' = t2
  /\ lastReportRecords' = n
  /\ IF outcome = "ok"
     THEN UNCHANGED <<pc, err>>
     ELSE /\ pc' = "failed"
          /\ err' = Errorf("error in periodic diff callback", outcome)

AfterCallback(outcome, t, t2, n) ==
  IF outcome = "ok"
  THEN /\ now' = t2
       /\ lastReportTime' = t2
       /\ lastReportRecords' = n
       /\ UNCHANGED <<pc, err>>
  ELSE /\ now' = t
       /\ UNCHANGED <<lastReportTime, lastReportRecords>>
       /\ pc' = "failed"
       /\ err' = Errorf("error in periodic diff callback", outcome)

(***************************************************************************)
(* The periodic check at the end of a loop iteration, after a record was   *)
(* counted and stored.  m1, m2, n, c1, c2 are the values after the store.  *)
(* The clock is read by time.Since only when TimeInterval > 0, and by      *)
(* time.Now() after a report.                                              *)
(***************************************************************************)
PeriodicCheck(m1, m2, n, c1, c2) ==
  \E t \in (IF periodicConfig.Enabled /\ periodicConfig.TimeInterval > 0
            THEN ClockAfter(now) ELSE {now}) :
    LET fire == shouldReportPeriodic(periodicConfig, t, lastReportTime, n,
                                     lastReportRecords)
    IN IF ~fire
       THEN /\ checked' = [at |-> t, fire |-> FALSE, cb |-> "none"]
            /\ now' = t
            /\ UNCHANGED <<callbackCount, lastReport, lastReportTime,
                           lastReportRecords, err, pc>>
       ELSE \E res \in generatePeriodicResult(m1, m2, n, c1, c2),
               outcome \in (IF onPeriodicDiff
                            THEN {"ok"} \cup CallbackErrors ELSE {"ok"}),
               t2 \in ClockAfter(t) :
              /\ IF onPeriodicDiff
                 THEN /\ callbackCount' = callbackCount + 1
                      /\ lastReport' = res
                      /\ checked' = [at |-> t, fire |-> TRUE, cb |-> outcome]
                 ELSE /\ UNCHANGED <<callbackCount, lastReport>>
                      /\ checked' = [at |-> t, fire |-> TRUE, cb |-> "none"]
              /\ AfterCallback(outcome, t, t2, n)

(***************************************************************************)
(* Phase 1: one iteration of the loop over source1.                        *)
(***************************************************************************)
\* faulty variant: the snapshot of phase 1 is built with the two maps swapped
Read1Record_Mirrored ==
  /\ pc = "phase1"
  /\ source1Count < MaxLen
  /\ \E record \in RecordPool :
       LET key == getRecordKey(keyField, record)
           m1 == IF key # "" THEN MapPut(source1Records, key, record)
                 ELSE source1Records
       IN /\ lastRead' = [src |-> 1, out |-> "record", record |-> record]
          /\ readLog' = Append(readLog, [src |-> 1, out |-> "record"])
          /\ source1Count' = source1Count + 1
          /\ recordsProcessed' = recordsProcessed + 1
          /\ source1Records' = m1
          /\ PeriodicCheck(source2Records, m1, recordsProcessed + 1,
                           source2Count, source1Count + 1)
  /\ UNCHANGED <<cmpVars, schemaVars, toolVars>>
  /\ UNCHANGED <<periodicConfig, keyField, onPeriodicDiff, source2Records,
                 source2Count, result>>

\* faulty variant: the first record stored under a key is kept
Read1Record_KeepsFirst ==
  /\ pc = "phase1"
  /\ source1Count < MaxLen
  /\ \E record \in RecordPool :
       LET key == getRecordKey(keyField, record)
           m1 == IF key # "" /\ key \notin DOMAIN source1Records
                 THEN MapPut(source1Records, key, record)
                 ELSE source1Records
       IN /\ lastRead' = [src |-> 1, out |-> "record", record |-> record]
          /\ readLog' = Append(readLog, [src |-> 1, out |-> "record"])
          /\ source1Count' = source1Count + 1
          /\ recordsProcessed' = recordsProcessed + 1
          /\ source1Records' = m1
          /\ PeriodicCheck(m1, source2Records, recordsProcessed + 1,
                           source1Count + 1, source2Count)
  /\ UNCHANGED <<cmpVars, schemaVars, toolVars>>
  /\ UNCHANGED <<periodicConfig, keyField, onPeriodicDiff, source2Records,
                 source2Count, result>>

Read1Record ==
  /\ pc = "phase1"
  /\ source1Count < MaxLen
  /\ \E record \in RecordPool :
       LET key == getRecordKey(keyField, record)
           m1 == IF key # "" THEN MapPut(source1Records, key, record)
                 ELSE source1Records
       IN /\ lastRead' = [src |-> 1, out |-> "record", record |-> record]
          /\ readLog' = Append(readLog, [src |-> 1, out |-> "record"])
          /\ source1Count' = source1Count + 1
          /\ recordsProcessed' = recordsProcessed + 1
          /\ source1Records' = m1
          /\ PeriodicCheck(m1, source2Records, recordsProcessed + 1,
                           source1Count + 1, source2Count)
  /\ UNCHANGED <<cmpVars, schemaVars, toolVars>>
  /\ UNCHANGED <<periodicConfig, keyField, onPeriodicDiff, source2Records,
                 source2Count, result>>

\* faulty variant: the count since the last report restarts with phase 2
Read1EOF_ResetsCount ==
  /\ pc = "phase1"
  /\ lastRead' = [src |-> 1, out |-> "EOF", record |-> EmptyMap]
  /\ readLog' = Append(readLog, [src |-> 1, out |-> "EOF"])
  /\ pc' = "phase2"
  /\ lastReportRecords' = recordsProcessed
  /\ UNCHANGED <<cmpVars, schemaVars, toolVars>>
  /\ UNCHANGED <<periodicConfig, keyField, onPeriodicDiff, source1Records,
                 source2Records, source1Count, source2Count,
                 recordsProcessed, lastReportTime, now,
                 checked, callbackCount, lastReport, result, err>>

Read1EOF ==
  /\ pc = "phase1"
  /\ lastRead' = [src |-> 1, out |-> "EOF", record |-> EmptyMap]
  /\ readLog' = Append(readLog, [src |-> 1, out |-> "EOF"])
  /\ pc' = "phase2"
  /\ UNCHANGED <<cmpVars, schemaVars, toolVars>>
  /\ UNCHANGED <<periodicConfig, keyField, onPeriodicDiff, source1Records,
                 source2Records, source1Count, source2Count,
                 recordsProcessed, lastReportRecords, lastReportTime, now,
                 checked, callbackCount, lastReport, result, err>>

\* faulty variant: a read error of source1 ends phase 1 like end-of-stream
Read1Error_Swallowed ==
  /\ pc = "phase1"
  /\ lastRead' = [src |-> 1, out |-> "ERR", record |-> EmptyMap]
  /\ readLog' = Append(readLog, [src |-> 1, out |-> "ERR"])
  /\ pc' = "phase2"
  /\ UNCHANGED <<cmpVars, schemaVars, toolVars>>
  /\ UNCHANGED <<periodicConfig, keyField, onPeriodicDiff, source1Records,
                 source2Records, source1Count, source2Count,
                 recordsProcessed, lastReportRecords, lastReportTime, now,
                 checked, callbackCount, lastReport, result, err>>

Read1Error ==
  /\ pc = "phase1"
  /\ lastRead' = [src |-> 1, out |-> "ERR", record |-> EmptyMap]
  /\ readLog' = Append(readLog, [src |-> 1, out |-> "ERR"])
  /\ pc' = "failed"
  /\ \E e \in ReadErrors : err' = Errorf("error reading from source1", e)
  /\ UNCHANGED <<cmpVars, schemaVars, toolVars>>
  /\ UNCHANGED <<periodicConfig, keyField, onPeriodicDiff, source1Records,
                 source2Records, source1Count, source2Count,
                 recordsProcessed, lastReportRecords, lastReportTime, now,
                 checked, callbackCount, lastReport, result>>

(***************************************************************************)
(* Phase 2: one iteration of the loop over source2; the EOF path runs on   *)
(* into generateFinalResult and the return.                                *)
(***************************************************************************)
\* faulty variant: source2 is read while source1 is still being drained
Read2Record_Interleaved ==
  /\ pc \in {"phase1", "phase2"}
  /\ source2Count < MaxLen
  /\ \E record \in RecordPool :
       LET key == getRecordKey(keyField, record)
           m2 == IF key # "" THEN MapPut(source2Records, key, record)
                 ELSE source2Records
       IN /\ lastRead' = [src |-> 2, out |-> "record", record |-> record]
          /\ readLog' = Append(readLog, [src |-> 2, out |-> "record"])
          /\ source2Count' = source2Count + 1
          /\ recordsProcessed' = recordsProcessed + 1
          /\ source2Records' = m2
          /\ PeriodicCheck(source1Records, m2, recordsProcessed + 1,
                           source1Count, source2Count + 1)
  /\ UNCHANGED <<cmpVars, schemaVars, toolVars>>
  /\ UNCHANGED <<periodicConfig, keyField, onPeriodicDiff, source1Records,
                 source1Count, result>>

\* faulty variant: a record of source2 is left out of recordsProcessed
Read2Record_Uncounted ==
  /\ pc = "phase2"
  /\ source2Count < MaxLen
  /\ \E record \in RecordPool :
       LET key == getRecordKey(keyField, record)
           m2 == IF key # "" THEN MapPut(source2Records, key, record)
                 ELSE source2Records
       IN /\ lastRead' = [src |-> 2, out |-> "record", record |-> record]
          /\ readLog' = Append(readLog, [src |-> 2, out |-> "record"])
          /\ source2Count' = source2Count + 1
          /\ recordsProcessed' = recordsProcessed
          /\ source2Records' = m2
          /\ PeriodicCheck(source1Records, m2, recordsProcessed,
                           source1Count, source2Count + 1)
  /\ UNCHANGED <<cmpVars, schemaVars, toolVars>>
  /\ UNCHANGED <<periodicConfig, keyField, onPeriodicDiff, source1Records,
                 source1Count, result>>

Read2Record ==
  /\ pc = "phase2"
  /\ source2Count < MaxLen
  /\ \E record \in RecordPool :
       LET key == getRecordKey(keyField, record)
           m2 == IF key # "" THEN MapPut(source2Records, key, record)
                 ELSE source2Records
       IN /\ lastRead' = [src |-> 2, out |-> "record", record |-> record]
          /\ readLog' = Append(readLog, [src |-> 2, out |-> "record"])
          /\ source2Count' = source2Count + 1
          /\ recordsProcessed' = recordsProcessed + 1
          /\ source2Records' = m2
          /\ PeriodicCheck(source1Records, m2, recordsProcessed + 1,
                           source1Count, source2Count + 1)
  /\ UNCHANGED <<cmpVars, schemaVars, toolVars>>
  /\ UNCHANGED <<periodicConfig, keyField, onPeriodicDiff, source1Records,
                 source1Count, result>>

Read2EOF ==
  /\ pc = "phase2"
  /\ lastRead' = [src |-> 2, out |-> "EOF", record |-> EmptyMap]
  /\ readLog' = Append(readLog, [src |-> 2, out |-> "EOF"])
  /\ result' \in generateFinalResult(source1Records, source2Records,
                                     recordsProcessed, source1Count,
                                     source2Count)
  /\ pc' = "done"
  /\ UNCHANGED <<cmpVars, schemaVars, toolVars>>
  /\ UNCHANGED <<periodicConfig, keyField, onPeriodicDiff, source1Records,
                 source2Records, source1Count, source2Count,
                 recordsProcessed, lastReportRecords, lastReportTime, now,
                 checked, callbackCount, lastReport, err>>

Read2Error ==
  /\ pc = "phase2"
  /\ lastRead' = [src |-> 2, out |-> "ERR", record |-> EmptyMap]
  /\ readLog' = Append(readLog, [src |-> 2, out |-> "ERR"])
  /\ pc' = "failed"
  /\ \E e \in ReadErrors : err' = Errorf("error reading from source2", e)
  /\ UNCHANGED <<cmpVars, schemaVars, toolVars>>
  /\ UNCHANGED <<periodicConfig, keyField, onPeriodicDiff, source1Records,
                 source2Records, source1Count, source2Count,
                 recordsProcessed, lastReportRecords, lastReportTime, now,
                 checked, callbackCount, lastReport, result>>

Next ==
  \/ Read1Record
  \/ Read1EOF
  \/ Read1Error
  \/ Read2Record
  \/ Read2EOF
  \/ Read2Error

Spec == Init /\ [][Next]_vars

(***************************************************************************)
(* compareRecords on its own: two records are drawn, the call is made.     *)
(***************************************************************************)
InitCmp ==
  /\ periodicConfig = [Enabled |-> FALSE, TimeInterval |-> 0,
                       RecordInterval |-> 0]
  /\ keyField = "id"
  /\ onPeriodicDiff = FALSE
  /\ CompareStart
  /\ cmpRecord1 \in CmpRecords
  /\ cmpRecord2 \in CmpRecords
  /\ cmpDiffs = <<>>
  /\ cmpDone = FALSE
  /\ SchemaIdle
  /\ ToolIdle

CallCompareRecords ==
  /\ ~cmpDone
  /\ cmpDiffs' \in compareRecords(cmpRecord1, cmpRecord2)
  /\ cmpDone' = TRUE
  /\ UNCHANGED <<cmpRecord1, cmpRecord2, compareVars, schemaVars, toolVars>>

NextCmp == CallCompareRecords

SpecCmp == InitCmp /\ [][NextCmp]_vars

(***************************************************************************)
(* inferType (generator.go).                                               *)
(***************************************************************************)
\* most values in the list handed to inferType on its own
MaxValues == 2

\* texts strconv.ParseFloat(s, 64) accepts, among the texts of the model
NumericTexts == {IntStr(i) : i \in 0..9} \cup {"-1", "2.5", "1e3"}

ParseFloat(x) == x \in NumericTexts

dateTimeLayouts ==
  <<"RFC3339", "RFC3339Nano", "2006-01-02 15:04:05", "2006-01-02",
    "01/02/2006">>

\* texts time.Parse(layout, s) accepts, among the texts of the model
LayoutTexts(layout) ==
  CASE layout = "RFC3339" -> {"2024-01-02T03:04:05Z"}
    [] layout = "RFC3339Nano" -> {"2024-01-02T03:04:05Z"}
    [] layout = "2006-01-02 15:04:05" -> {"2024-01-02 03:04:05"}
    [] layout = "2006-01-02" -> {"2024-01-02"}
    [] layout = "01/02/2006" -> {"01/02/2024"}

TimeParse(layout, x) == x \in LayoutTexts(layout)

\* faulty variant: a category is kept when some value conforms to it
inferType_SomeValue(values) ==
  IF Len(values) = 0 THEN "unknown"
  ELSE
    LET nonNil == {i \in 1..Len(values) : values[i] # Nil}
        canBeDateTime(i) ==
          \E j \in 1..Len(dateTimeLayouts) :
             TimeParse(dateTimeLayouts[j], Sprintf(values[i]))
    IN IF nonNil = {} THEN "unknown"
       ELSE IF \E i \in nonNil : values[i].t = "map" THEN "object"
       ELSE IF \E i \in nonNil : values[i].t = "arr" THEN "array"
       ELSE IF \E i \in nonNil : ParseFloat(Sprintf(values[i]))
         THEN "numeric"
       ELSE IF \E i \in nonNil : canBeDateTime(i) THEN "datetime"
       ELSE "string"

inferType(values) ==
  IF Len(values) = 0 THEN "unknown"
  ELSE
    LET nonNil == {i \in 1..Len(values) : values[i] # Nil}
        isObject == \A i \in nonNil : values[i].t = "map"
        isArray == \A i \in nonNil : values[i].t = "arr"
        isNumeric == \A i \in nonNil : ParseFloat(Sprintf(values[i]))
        canBeDateTime(i) ==
          \E j \in 1..Len(dateTimeLayouts) :
             TimeParse(dateTimeLayouts[j], Sprintf(values[i]))
        isDateTime == \A i \in nonNil : canBeDateTime(i)
    IN IF nonNil = {} THEN "unknown"
       ELSE IF isObject THEN "object"
       ELSE IF isArray THEN "array"
       ELSE IF isNumeric THEN "numeric"
       ELSE IF isDateTime THEN "datetime"
       ELSE "string"

\* values handed to inferType on its own
InferValuePool ==
  {Nil, IntV(1), StrV("2.5"), StrV("a"), StrV("2024-01-02T03:04:05Z"),
   StrV("01/02/2024"), MapV([name |-> StrV("a")]), ArrV(<<StrV("a")>>)}

SeqsUpTo(S, n) == UNION {[1..k -> S] : k \in 0..n}

InitInfer ==
  /\ CompareIdle
  /\ CmpIdle
  /\ ToolIdle
  /\ inferValues \in SeqsUpTo(InferValuePool, MaxValues)
  /\ inferResult = ""
  /\ inferDone = FALSE
  /\ OffIdle
  /\ FlatIdle
  /\ GenIdle

CallInferType ==
  /\ ~inferDone
  /\ inferResult' = inferType(inferValues)
  /\ inferDone' = TRUE
  /\ UNCHANGED <<inferValues, compareVars, cmpVars, toolVars, offVars, flatVars,
                 genVars>>

NextInfer == CallInferType

SpecInfer == InitInfer /\ [][NextInfer]_vars

(***************************************************************************)
(* CollectFieldValues (generator.go), one action per iteration of its      *)
(* loop over the work queue.                                               *)
(***************************************************************************)
\* fieldValues[prefix] = append(fieldValues[prefix], v), when the prefix is
\* not empty
Collect(fieldValues, prefix, v) ==
  IF prefix # ""
  THEN MapPut(fieldValues, prefix,
              IF prefix \in DOMAIN fieldValues
              THEN Append(fieldValues[prefix], v)
              ELSE <<v>>)
  ELSE fieldValues

\* the work items of a map's entries, visited in the given order
MapItems(m, prefix, order) ==
  [i \in 1..Len(order) |->
     [data |-> m[order[i]],
      prefix |-> IF prefix # "" THEN prefix \o "." \o order[i]
                 ELSE order[i]]]

\* the work items of a slice's elements
ArrayItems(a, prefix) ==
  [i \in 1..Len(a) |-> [data |-> a[i], prefix |-> prefix \o "[]"]]

\* the queue and the map after one iteration that visits a map's entries
\* in the given order
CollectOne(queue, fieldValues, order) ==
  LET item == Head(queue)
      rest == Tail(queue)
  IN CASE item.data.t = "nil" -> [queue |-> rest, fieldValues |-> fieldValues]
       [] item.data.t = "map" ->
            [queue |-> rest \o MapItems(item.data.m, item.prefix, order),
             fieldValues |-> Collect(fieldValues, item.prefix, item.data)]
       [] item.data.t = "arr" ->
            [queue |-> rest \o ArrayItems(item.data.a, item.prefix),
             fieldValues |-> Collect(fieldValues, item.prefix, item.data)]
       [] OTHER ->
            [queue |-> rest,
             fieldValues |-> Collect(fieldValues, item.prefix, item.data)]

\* the orders a range over the head item's entries can take (one, empty,
\* when the head item is not a map)
HeadOrders(queue) ==
  IF Head(queue).data.t = "map" THEN Perms(DOMAIN Head(queue).data.m)
  ELSE {<<>>}

FlatRecExample ==
  [id |-> IntV(1), user |-> MapV([name |-> StrV("Jules")]),
   tags |-> ArrV(<<StrV("x"), StrV("y")>>)]

FlatRecNulls ==
  [id |-> Nil, user |-> MapV([name |-> Nil, a |-> IntV(1)]),
   tags |-> ArrV(<<Nil, StrV("x")>>)]

FlatRecDeep ==
  [a |-> ArrV(<<MapV([name |-> IntV(1)]), ArrV(<<IntV(2)>>)>>),
   user |-> MapV([a |-> MapV([name |-> StrV("x")])])]

\* a record with a field whose name is the empty string
FlatRecEmptyName ==
  [k \in {"", "id"} |-> IF k = "" THEN StrV("x") ELSE IntV(1)]

\* the same with a nested map under the empty name
FlatRecEmptyNested ==
  [k \in {"", "name"} |-> IF k = "" THEN MapV([name |-> StrV("x")])
                          ELSE IntV(1)]

FlatRecordPool == {FlatRecExample, FlatRecNulls, FlatRecDeep,
                   FlatRecEmptyName, FlatRecEmptyNested, RecA, RecB}

InitFlat ==
  /\ CompareIdle
  /\ CmpIdle
  /\ ToolIdle
  /\ InferIdle
  /\ OffIdle
  /\ flatRecord \in FlatRecordPool
  /\ flatQueue = <<[data |-> MapV(flatRecord), prefix |-> ""]>>
  /\ flatValues = EmptyMap
  /\ GenIdle

\* item.data == nil
CollectNil ==
  /\ flatQueue # <<>>
  /\ Head(flatQueue).data.t = "nil"
  /\ flatQueue' = CollectOne(flatQueue, flatValues, <<>>).queue
  /\ UNCHANGED <<flatValues, flatRecord, compareVars, cmpVars, toolVars, inferVars,
                 offVars, genVars>>

\* item.data is a Record or a map
CollectMap ==
  /\ flatQueue # <<>>
  /\ Head(flatQueue).data.t = "map"
  /\ \E order \in HeadOrders(flatQueue) :
       LET after == CollectOne(flatQueue, flatValues, order)
       IN /\ flatQueue' = after.queue
          /\ flatValues' = after.fieldValues
  /\ UNCHANGED <<flatRecord, compareVars, cmpVars, toolVars, inferVars, offVars,
                 genVars>>

\* item.data is a slice
CollectArray ==
  /\ flatQueue # <<>>
  /\ Head(flatQueue).data.t = "arr"
  /\ flatQueue' = CollectOne(flatQueue, flatValues, <<>>).queue
  /\ flatValues' = CollectOne(flatQueue, flatValues, <<>>).fieldValues
  /\ UNCHANGED <<flatRecord, compareVars, cmpVars, toolVars, inferVars, offVars,
                 genVars>>

\* item.data is anything else
CollectScalar ==
  /\ flatQueue # <<>>
  /\ Head(flatQueue).data.t \notin {"nil", "map", "arr"}
  /\ flatQueue' = CollectOne(flatQueue, flatValues, <<>>).queue
  /\ flatValues' = CollectOne(flatQueue, flatValues, <<>>).fieldValues
  /\ UNCHANGED <<flatRecord, compareVars, cmpVars, toolVars, inferVars, offVars,
                 genVars>>

NextFlat == CollectNil \/ CollectMap \/ CollectArray \/ CollectScalar

SpecFlat == InitFlat /\ [][NextFlat]_vars

(***************************************************************************)
(* The offline pattern detector (internal/pkg/patterndetection/offline.go).*)
(***************************************************************************)
\* most values in the list handed to the offline detector on its own
MaxOffValues == 6

emailRegex == "^[a-zA-Z0-9._%+-]+@[a-zA-Z0-9.-]+\\.[a-zA-Z]{2,}$"

phoneRegex ==
  "^\\+?[1-9]\\d{1,14}$|^\\(\\d{3}\\)\\s\\d{3}-\\d{4}$|^\\d{3}-\\d{3}-\\d{4}$|^\\d{10,15}$"

\* the pattern detectPhonePattern returns
phonePattern ==
  "^\\+?[1-9]\\d{1,14}$|^\\(\\d{3}\\)\\s\\d{3}-\\d{4}$|^\\d{3}-\\d{3}-\\d{4}$"

urlRegex == "^https?://[^\\s/$.?#].[^\\s]*$"

ipRegex == "^\\d{1,3}\\.\\d{1,3}\\.\\d{1,3}\\.\\d{1,3}$"

uuidRegex ==
  "^[0-9a-f]{8}-[0-9a-f]{4}-[1-5][0-9a-f]{3}-[89ab][0-9a-f]{3}-[0-9a-f]{12}$"

\* the texts of the model the regular expression matches
MatchingTexts(regex) ==
  CASE regex = emailRegex -> {"a@b.co"}
    [] regex = phoneRegex -> {"1234567", "12345"}
    [] regex = urlRegex -> {"http://a.b"}
    [] regex = ipRegex -> {"10.0.0.1"}
    [] regex = uuidRegex -> {"123e4567-e89b-12d3-a456-426614174000"}

MatchString(regex, x) == x \in MatchingTexts(regex)

\* strings.ToLower on the texts of the model
ToLower(x) == IF x = "123E4567-E89B-12D3-A456-426614174000"
              THEN "123e4567-e89b-12d3-a456-426614174000"
              ELSE x

\* how many elements of the list the regular expression matches
MatchCount(values, regex) ==
  Cardinality({i \in 1..Len(values) : MatchString(regex, values[i])})

\* faulty variant: a ratio of exactly 0.8 passes
OverThreshold_AtLeast(matchCount, n) == 5 * matchCount >= 4 * n

\* float64(matchCount)/float64(n) > 0.8
OverThreshold(matchCount, n) == 5 * matchCount > 4 * n

detectEmailPattern(values) ==
  LET matchCount == MatchCount(values, emailRegex)
  IN IF OverThreshold(matchCount, Len(values)) THEN emailRegex ELSE ""

detectPhonePattern(values) ==
  LET matchCount ==
        Cardinality({i \in 1..Len(values) :
                       /\ ~(Len(values[i]) < 7)
                       /\ MatchString(phoneRegex, values[i])
                       /\ ~(Len(values[i]) <= 3)})
      longValueCount ==
        Cardinality({i \in 1..Len(values) : Len(values[i]) >= 7})
  IN IF /\ OverThreshold(matchCount, Len(values))
        /\ Len(values) > 0
        /\ 2 * longValueCount > Len(values)
     THEN phonePattern
     ELSE ""

detectURLPattern(values) ==
  LET matchCount == MatchCount(values, urlRegex)
  IN IF OverThreshold(matchCount, Len(values)) THEN urlRegex ELSE ""

detectIPPattern(values) ==
  LET matchCount == MatchCount(values, ipRegex)
  IN IF OverThreshold(matchCount, Len(values)) THEN ipRegex ELSE ""

detectUUIDPattern(values) ==
  LET matchCount ==
        MatchCount([i \in 1..Len(values) |-> ToLower(values[i])], uuidRegex)
  IN IF OverThreshold(matchCount, Len(values)) THEN uuidRegex ELSE ""

\* OfflineDetector.DetectPatterns: the matchers returned (the error is
\* always nil)
OfflineDetectPatterns(fieldType, values) ==
  IF Len(values) = 0 THEN <<>>
  ELSE
    LET nonNil == SelectSeq(values, LAMBDA v : v # Nil)
        stringValues == [i \in 1..Len(nonNil) |-> Sprintf(nonNil[i])]
    IN IF Len(stringValues) = 0 THEN <<>>
       ELSE IF detectEmailPattern(stringValues) # ""
         THEN <<[regex |-> detectEmailPattern(stringValues)]>>
       ELSE IF detectPhonePattern(stringValues) # ""
         THEN <<[regex |-> detectPhonePattern(stringValues)]>>
       ELSE IF detectURLPattern(stringValues) # ""
         THEN <<[regex |-> detectURLPattern(stringValues)]>>
       ELSE IF detectIPPattern(stringValues) # ""
         THEN <<[regex |-> detectIPPattern(stringValues)]>>
       ELSE IF detectUUIDPattern(stringValues) # ""
         THEN <<[regex |-> detectUUIDPattern(stringValues)]>>
       ELSE IF fieldType = "numeric" THEN <<[isNumeric |-> TRUE]>>
       ELSE IF fieldType = "datetime" THEN <<[isDateTime |-> TRUE]>>
       ELSE <<>>

\* values handed to the offline detector on its own
OffValuePool ==
  {Nil, StrV("a@b.co"), IntV(1234567), StrV("12345"), StrV("http://a.b"),
   StrV("10.0.0.1"), StrV("123E4567-E89B-12D3-A456-426614174000")}

\* the lists handed to the detector: up to MaxOffValues values, of at most
\* two different kinds
OffValueLists ==
  UNION {SeqsUpTo({a, b}, MaxOffValues) : a, b \in OffValuePool}

FieldTypes == {"numeric", "datetime", "string"}

InitOffline ==
  /\ CompareIdle
  /\ CmpIdle
  /\ ToolIdle
  /\ InferIdle
  /\ offType \in FieldTypes
  /\ offValues \in OffValueLists
  /\ offMatchers = <<>>
  /\ offDone = FALSE
  /\ FlatIdle
  /\ GenIdle

CallDetectPatterns ==
  /\ ~offDone
  /\ offMatchers' = OfflineDetectPatterns(offType, offValues)
  /\ offDone' = TRUE
  /\ UNCHANGED <<offType, offValues, compareVars, cmpVars, toolVars, inferVars,
                 flatVars, genVars>>

NextOffline == CallDetectPatterns

SpecOffline == InitOffline /\ [][NextOffline]_vars

(***************************************************************************)
(* The online pattern detector (patterndetection/online.go).  What the     *)
(* remote API answers is an input of the call.                             *)
(***************************************************************************)
\* what one call of the provider's API can come to: a failure of the
\* request, or the text of the first content block of the answer
ApiReplies ==
  [kind : {"error"},
   text : {"failed to make request", "empty response from API"}] \cup
  [kind : {"text"},
   text : {"NO_PATTERN", "", "  NO_PATTERN ", " ^[a-z]+$ ", "[a-"}]

\* strings.TrimSpace on texts whose only white space is the blank
RECURSIVE TrimSpace(_)
TrimSpace(s) ==
  IF Len(s) = 0 THEN s
  ELSE IF SubSeq(s, 1, 1) = " " THEN TrimSpace(SubSeq(s, 2, Len(s)))
  ELSE IF SubSeq(s, Len(s), Len(s)) = " "
    THEN TrimSpace(SubSeq(s, 1, Len(s) - 1))
  ELSE s

\* regexp.Compile succeeds on the text (on the texts of ApiReplies)
regexpCompile(text) ==
  text \in {"", "NO_PATTERN", "^[a-z]+$"}

\* OnlineDetector.sampleValues: the texts of the values that are not nil,
\* each once, in the order of their first occurrence, at most maxSamples
sampleValues(values, maxSamples) ==
  LET RECURSIVE Loop(_, _)
      Loop(i, stringValues) ==
        IF i > Len(values) THEN stringValues
        ELSE IF /\ values[i] # Nil
                /\ Sprintf(values[i]) \notin ToSet(stringValues)
                /\ Len(stringValues) < maxSamples
          THEN Loop(i + 1, Append(stringValues, Sprintf(values[i])))
        ELSE Loop(i + 1, stringValues)
  IN Loop(1, <<>>)

\* OnlineDetector.callClaudeAPI, from what the API answered
callClaudeAPI(reply) ==
  IF reply.kind = "error"
  THEN [response |-> "", err |-> Errorf(reply.text, "none")]
  ELSE [response |-> TrimSpace(reply.text), err |-> NoError]

\* faulty variant: the sentinel yields no matcher whatever the field type
parseAIResponse_NoFallback(response, fieldType) ==
  LET text == TrimSpace(response)
  IN IF text = "NO_PATTERN" \/ text = ""
     THEN [matchers |-> <<>>, err |-> NoError]
     ELSE IF ~regexpCompile(text)
       THEN [matchers |-> <<>>,
             err |-> Errorf("invalid regex pattern from AI: " \o text,
                            "error parsing regexp")]
     ELSE [matchers |-> <<[regex |-> text]>>, err |-> NoError]

\* faulty variant: the reply is taken as a pattern without compiling it
parseAIResponse_Unvalidated(response, fieldType) ==
  LET text == TrimSpace(response)
  IN IF text = "NO_PATTERN" \/ text = ""
     THEN [matchers |-> IF fieldType = "numeric" THEN <<[isNumeric |-> TRUE]>>
                        ELSE IF fieldType = "datetime"
                          THEN <<[isDateTime |-> TRUE]>>
                        ELSE <<>>,
           err |-> NoError]
     ELSE [matchers |-> <<[regex |-> text]>>, err |-> NoError]

\* OnlineDetector.parseAIResponse
parseAIResponse(response, fieldType) ==
  LET text == TrimSpace(response)
  IN IF text = "NO_PATTERN" \/ text = ""
     THEN [matchers |-> IF fieldType = "numeric" THEN <<[isNumeric |-> TRUE]>>
                        ELSE IF fieldType = "datetime"
                          THEN <<[isDateTime |-> TRUE]>>
                        ELSE <<>>,
           err |-> NoError]
     ELSE IF ~regexpCompile(text)
       THEN [matchers |-> <<>>,
             err |-> Errorf("invalid regex pattern from AI: " \o text,
                            "error parsing regexp")]
     ELSE [matchers |-> <<[regex |-> text]>>, err |-> NoError]

\* OnlineDetector.DetectPatterns; api is the OnlineAPI configuration the
\* detector was built with, reply what the API answers if it is called
OnlineDetectPatterns(api, fieldType, values, reply) ==
  IF Len(values) = 0 THEN [matchers |-> <<>>, err |-> NoError]
  ELSE IF Len(sampleValues(values, 10)) = 0
    THEN [matchers |-> <<>>, err |-> NoError]
  ELSE IF api = "otherProvider"
    THEN [matchers |-> <<>>,
          err |-> Errorf("unsupported provider: other", "none")]
  ELSE IF callClaudeAPI(reply).err # NoError
    THEN [matchers |-> <<>>,
          err |-> Errorf("failed to call AI API", callClaudeAPI(reply).err.msg)]
  ELSE parseAIResponse(callClaudeAPI(reply).response, fieldType)

(***************************************************************************)
(* GenerateWithPatternDetection (generator.go) with the detector factory   *)
(* (patterndetection): one action per Read of sampleRecords; the action    *)
(* that ends the sampling carries the rest of the function.                *)
(***************************************************************************)
DefaultSampleSize == 1000

\* the sampler configuration: absent (nil) or with a sample size
SamplerConfigs ==
  {[present |-> FALSE, SampleSize |-> 0]} \cup
  [present : {TRUE}, SampleSize : {-1, 0, 1, 2}]

\* the pattern-detection configuration: absent (nil), disabled, offline,
\* online with a key, online without one, online without API settings, and
\* an unrecognized mode
PatternConfigs ==
  {[present |-> FALSE, Enabled |-> FALSE, Mode |-> "", OnlineAPI |-> "nil"],
   [present |-> TRUE, Enabled |-> FALSE, Mode |-> "bogus",
    OnlineAPI |-> "nil"],
   [present |-> TRUE, Enabled |-> TRUE, Mode |-> "offline",
    OnlineAPI |-> "nil"],
   [present |-> TRUE, Enabled |-> TRUE, Mode |-> "online",
    OnlineAPI |-> "key"],
   [present |-> TRUE, Enabled |-> TRUE, Mode |-> "online",
    OnlineAPI |-> "nokey"],
   [present |-> TRUE, Enabled |-> TRUE, Mode |-> "online",
    OnlineAPI |-> "nil"],
   [present |-> TRUE, Enabled |-> TRUE, Mode |-> "bogus",
    OnlineAPI |-> "nil"]}

\* faulty variant: the configured sample size is ignored
SampleSizeOf_Default(samplerConfig) == DefaultSampleSize

SampleSizeOf(samplerConfig) ==
  IF samplerConfig.present /\ samplerConfig.SampleSize > 0
  THEN samplerConfig.SampleSize
  ELSE DefaultSampleSize

NewOnlineDetector(cfg) ==
  IF cfg = "nil"
  THEN [detector |-> "none",
        err |-> Errorf("online API configuration is required", "none")]
  ELSE IF cfg = "nokey"
  THEN [detector |-> "none",
        err |-> Errorf("API key is required for online mode", "none")]
  ELSE [detector |-> "online", err |-> NoError]

\* faulty variant: the mode is examined before the Enabled flag
CreateDetector_ModeFirst(cfg) ==
  IF ~cfg.present
  THEN [detector |-> "noop", err |-> NoError]
  ELSE CASE cfg.Mode = "offline" /\ cfg.Enabled ->
              [detector |-> "offline", err |-> NoError]
         [] cfg.Mode = "online" /\ cfg.Enabled ->
              NewOnlineDetector(cfg.OnlineAPI)
         [] cfg.Mode \in {"offline", "online"} /\ ~cfg.Enabled ->
              [detector |-> "noop", err |-> NoError]
         [] OTHER ->
              [detector |-> "none",
               err |-> Errorf("unsupported pattern detection mode: "
                                \o cfg.Mode, "none")]

CreateDetector(cfg) ==
  IF ~cfg.present \/ ~cfg.Enabled
  THEN [detector |-> "noop", err |-> NoError]
  ELSE CASE cfg.Mode = "offline" -> [detector |-> "offline", err |-> NoError]
         [] cfg.Mode = "online" -> NewOnlineDetector(cfg.OnlineAPI)
         [] OTHER ->
              [detector |-> "none",
               err |-> Errorf("unsupported pattern detection mode: "
                                \o cfg.Mode, "none")]

\* CollectFieldValues run to the end of its queue; the entries of a map
\* are visited in one of the possible orders
RECURSIVE CollectLoop(_, _)
CollectLoop(queue, fieldValues) ==
  IF queue = <<>> THEN fieldValues
  ELSE LET order == CHOOSE o \in HeadOrders(queue) : TRUE
           after == CollectOne(queue, fieldValues, order)
       IN CollectLoop(after.queue, after.fieldValues)

CollectFieldValues(record, fieldValues) ==
  CollectLoop(<<[data |-> MapV(record), prefix |-> ""]>>, fieldValues)

\* fieldValues after the loop that calls CollectFieldValues on the records
\* lo..hi in turn: every path holds the values of the records in the order
\* of the records
RECURSIVE CollectAll(_, _, _)
CollectAll(records, lo, hi) ==
  IF lo > hi THEN EmptyMap
  ELSE IF lo = hi THEN CollectFieldValues(records[lo], EmptyMap)
  ELSE LET mid == (lo + hi) \div 2
           first == CollectAll(records, lo, mid)
           second == CollectAll(records, mid + 1, hi)
       IN [path \in (DOMAIN first) \cup (DOMAIN second) |->
             (IF path \in DOMAIN first THEN first[path] ELSE <<>>) \o
             (IF path \in DOMAIN second THEN second[path] ELSE <<>>)]

\* what DetectPatterns of the detector can return for a field: the online
\* detector depends on the answer of the remote API
DetectOutcomes(detector, fieldType, values) ==
  CASE detector = "noop" -> {[matchers |-> <<>>, failed |-> FALSE]}
    [] detector = "offline" ->
         {[matchers |-> OfflineDetectPatterns(fieldType, values),
           failed |-> FALSE]}
    [] detector = "online" ->
         IF \A i \in 1..Len(values) : values[i] = Nil
         THEN {[matchers |-> <<>>, failed |-> FALSE]}
         ELSE {IF reply.kind = "error"
               THEN [matchers |-> <<>>, failed |-> TRUE]
               ELSE LET out == parseAIResponse(callClaudeAPI(reply).response,
                                               fieldType)
                    IN [matchers |-> out.matchers,
                        failed |-> out.err # NoError] :
                 reply \in ApiReplies}

\* the fields built from what the detector returned for each of them
FieldsOf(fieldValues, names, outcome) ==
  [fields |-> [name \in names |->
                 [Type |-> inferType(fieldValues[name]),
                  Matchers |-> IF outcome[name].failed THEN <<>>
                               ELSE outcome[name].matchers]],
   warnings |-> {name \in names : outcome[name].failed}]

\* what the detector can return for every field
OutcomesOf(fieldValues, detector) ==
  LET of(name) == DetectOutcomes(detector, inferType(fieldValues[name]),
                                 fieldValues[name])
  IN {o \in [DOMAIN fieldValues ->
               UNION {of(name) : name \in DOMAIN fieldValues}] :
        \A name \in DOMAIN fieldValues : o[name] \in of(name)}

\* faulty variant: a field whose detection failed is left out
analyzeFieldsWithPatterns_Dropped(fieldValues, detector) ==
  {FieldsOf(fieldValues, {n \in DOMAIN fieldValues : ~o[n].failed}, o) :
     o \in OutcomesOf(fieldValues, detector)}

\* the results analyzeFieldsWithPatterns can give, each with the fields it
\* printed a warning for
analyzeFieldsWithPatterns(fieldValues, detector) ==
  {FieldsOf(fieldValues, DOMAIN fieldValues, o) :
     o \in OutcomesOf(fieldValues, detector)}

\* faulty variant: the detector is created before the sample is looked at
AfterSampling_DetectorFirst(records) ==
  LET created == CreateDetector(genPattern)
  IN IF created.err # NoError
     THEN /\ genPc' = "failed"
          /\ genErr' = Errorf("failed to create pattern detector",
                              created.err.msg)
          /\ UNCHANGED <<genSchema, genWarnings>>
     ELSE /\ genPc' = "done"
          /\ genErr' = NoError
          /\ \E res \in analyzeFieldsWithPatterns(
                           CollectAll(records, 1, Len(records)),
                           created.detector) :
               /\ genSchema' = [Fields |-> res.fields]
               /\ genWarnings' = res.warnings

\* GenerateWithPatternDetection after sampleRecords has returned records
AfterSampling(records) ==
  IF Len(records) = 0
  THEN /\ genPc' = "done"
       /\ genSchema' = [Fields |-> EmptyMap]
       /\ UNCHANGED <<genErr, genWarnings>>
  ELSE
    LET fieldValues == CollectAll(records, 1, Len(records))
        created == CreateDetector(genPattern)
    IN IF created.err # NoError
       THEN /\ genPc' = "failed"
            /\ genErr' = Errorf("failed to create pattern detector",
                                created.err.msg)
            /\ UNCHANGED <<genSchema, genWarnings>>
       ELSE /\ genPc' = "done"
            /\ \E res \in analyzeFieldsWithPatterns(fieldValues,
                                                     created.detector) :
                 /\ genSchema' = [Fields |-> res.fields]
                 /\ genWarnings' = res.warnings
            /\ UNCHANGED genErr

GenRecA == [id |-> IntV(1), x |-> Nil]

GenRecB == [id |-> StrV("a@b.co"), x |-> StrV("2.5")]

\* the records the n-th Read can return: a long source repeats one record
\* after its first MaxLen records
GenReadable(n) == IF n <= MaxLen THEN {GenRecA, GenRecB} ELSE {GenRecA}

InitGen ==
  /\ CompareIdle
  /\ CmpIdle
  /\ ToolIdle
  /\ InferIdle
  /\ OffIdle
  /\ FlatIdle
  /\ genSampler \in SamplerConfigs
  /\ genPattern \in PatternConfigs
  /\ GenerateStart

GenUnchanged ==
  UNCHANGED <<genSampler, genPattern, compareVars, cmpVars, toolVars, inferVars,
              offVars, flatVars>>

\* reader.Read() returns a record: it is appended, and the loop ends when
\* the sample is full
GenReadRecord ==
  /\ genPc = "sampling"
  /\ Len(genRecords) < SampleSizeOf(genSampler)
  /\ \E record \in GenReadable(genReads + 1) :
       /\ genRecords' = Append(genRecords, record)
       /\ genReads' = genReads + 1
       /\ genLastOut' = "record"
       /\ IF Len(genRecords) + 1 < SampleSizeOf(genSampler)
          THEN UNCHANGED <<genPc, genSchema, genErr, genWarnings>>
          ELSE AfterSampling(Append(genRecords, record))
  /\ UNCHANGED genReadsAtEOF
  /\ GenUnchanged

\* reader.Read() returns io.EOF: the loop ends (a source is at most MaxLen
\* records long or longer than any sample)
GenReadEOF ==
  /\ genPc = "sampling"
  /\ Len(genRecords) < SampleSizeOf(genSampler)
  /\ genReads <= MaxLen
  /\ genReads' = genReads + 1
  /\ genLastOut' = "eof"
  /\ genReadsAtEOF' = genReads + 1
  /\ AfterSampling(genRecords)
  /\ UNCHANGED genRecords
  /\ GenUnchanged

\* reader.Read() returns another error
GenReadError ==
  /\ genPc = "sampling"
  /\ Len(genRecords) < SampleSizeOf(genSampler)
  /\ genReads <= MaxLen
  /\ \E e \in ReadErrors :
       genErr' = Errorf("failed to sample records", e)
  /\ genReads' = genReads + 1
  /\ genLastOut' = "error"
  /\ genPc' = "failed"
  /\ genRecords' = <<>>
  /\ UNCHANGED <<genReadsAtEOF, genSchema, genWarnings>>
  /\ GenUnchanged

NextGen == GenReadRecord \/ GenReadEOF \/ GenReadError

SpecGen == InitGen /\ [][NextGen]_vars

(***************************************************************************)
(* The detector factory and the detectors on their own: a configuration,   *)
(* a field type and a list of values are drawn, CreateDetector is called   *)
(* and then DetectPatterns of the detector it returned.                    *)
(***************************************************************************)
InitDetect ==
  /\ CompareIdle
  /\ CmpIdle
  /\ SchemaIdle
  /\ StreamIdle
  /\ detConfig \in PatternConfigs \cup
                   [present : {TRUE}, Enabled : BOOLEAN,
                    Mode : {"offline", "online", "bogus", ""},
                    OnlineAPI : {"nil", "nokey", "key", "otherProvider"}]
  /\ detType \in FieldTypes
  /\ detValues \in SeqsUpTo({Nil, StrV("abc"), IntV(12), StrV("a@b.co")},
                            MaxValues)
  /\ detPc = "create"
  /\ detDetector = "none"
  /\ detReply = NoReply
  /\ detMatchers = <<>>
  /\ detErr = NoError

CallCreateDetector ==
  /\ detPc = "create"
  /\ detDetector' = CreateDetector(detConfig).detector
  /\ detErr' = CreateDetector(detConfig).err
  /\ detPc' = IF CreateDetector(detConfig).err = NoError THEN "detect"
              ELSE "failed"
  /\ UNCHANGED <<detConfig, detType, detValues, detReply, detMatchers,
                 compareVars, cmpVars, schemaVars, streamVars>>

\* NoOpDetector.DetectPatterns
DetectNoOp ==
  /\ detPc = "detect"
  /\ detDetector = "noop"
  /\ detMatchers' = <<>>
  /\ detErr' = NoError
  /\ detPc' = "done"
  /\ UNCHANGED <<detConfig, detType, detValues, detDetector, detReply,
                 compareVars, cmpVars, schemaVars, streamVars>>

DetectOffline ==
  /\ detPc = "detect"
  /\ detDetector = "offline"
  /\ detMatchers' = OfflineDetectPatterns(detType, detValues)
  /\ detErr' = NoError
  /\ detPc' = "done"
  /\ UNCHANGED <<detConfig, detType, detValues, detDetector, detReply,
                 compareVars, cmpVars, schemaVars, streamVars>>

\* the API is called only for a list with a value that is not nil and by a
\* detector of a provider it knows
DetectOnline ==
  /\ detPc = "detect"
  /\ detDetector = "online"
  /\ \E reply \in ApiReplies :
       LET called == /\ Len(sampleValues(detValues, 10)) > 0
                     /\ detConfig.OnlineAPI # "otherProvider"
           out == OnlineDetectPatterns(detConfig.OnlineAPI, detType,
                                       detValues, reply)
       IN /\ detReply' = IF called THEN reply ELSE NoReply
          /\ detMatchers' = out.matchers
          /\ detErr' = out.err
  /\ detPc' = "done"
  /\ UNCHANGED <<detConfig, detType, detValues, detDetector,
                 compareVars, cmpVars, schemaVars, streamVars>>

NextDetect ==
  \/ CallCreateDetector
  \/ DetectNoOp
  \/ DetectOffline
  \/ DetectOnline

SpecDetect == InitDetect /\ [][NextDetect]_vars

(***************************************************************************)
(* The stream generator (internal/pkg/generator/stream_generator.go): the  *)
(* goroutine generateRecords, Reads and calls of Close, interleaved.  A    *)
(* record stands for the recordID it was generated with.                   *)
(***************************************************************************)
MaxRecordsBound == 2

MaxBuffer == 2

MaxReads == 4

\* New: the channels are made, the WaitGroup is raised and the goroutine is
\* started; without MaxRecords the model lets it generate MaxRecordsBound + 1
\* records
InitStream ==
  /\ CompareIdle
  /\ CmpIdle
  /\ SchemaIdle
  /\ DetIdle
  /\ sgConfig \in [MaxRecords : 0..MaxRecordsBound, BufferSize : 1..MaxBuffer,
                   RateLimited : BOOLEAN]
  /\ recordCh = <<>>
  /\ recordChClosed = FALSE
  /\ stopChClosed = FALSE
  /\ closed = FALSE
  /\ mu = 0
  /\ wg = 1
  /\ recordID = 1
  /\ genPos = "top"
  /\ closePos = [c \in Closers |-> "idle"]
  /\ sgReads = <<>>

\* faulty variant: the loop ends one record early
GenLoopTop_OffByOne ==
  /\ genPos = "top"
  /\ genPos' = IF sgConfig.MaxRecords > 0 /\ recordID >= sgConfig.MaxRecords
               THEN "exit"
               ELSE IF stopChClosed THEN "exit"
               ELSE IF sgConfig.RateLimited THEN "tick"
               ELSE "send"
  /\ UNCHANGED <<sgConfig, recordCh, recordChClosed, stopChClosed, closed,
                 mu, wg, recordID, closePos, sgReads>>
  /\ UNCHANGED <<compareVars, cmpVars, schemaVars, detVars>>

\* generateRecords, top of the loop: the test of maxRecords, the poll of
\* stopCh, and on to the rate limiter or to the send
GenLoopTop ==
  /\ genPos = "top"
  /\ genPos' = IF sgConfig.MaxRecords > 0 /\ recordID > sgConfig.MaxRecords
               THEN "exit"
               ELSE IF stopChClosed THEN "exit"
               ELSE IF sgConfig.RateLimited THEN "tick"
               ELSE "send"
  /\ UNCHANGED <<sgConfig, recordCh, recordChClosed, stopChClosed, closed,
                 mu, wg, recordID, closePos, sgReads>>
  /\ UNCHANGED <<compareVars, cmpVars, schemaVars, detVars>>

\* generateRecords, the select on the ticker and stopCh
GenRateLimit ==
  /\ genPos = "tick"
  /\ \/ genPos' = "send"
     \/ stopChClosed /\ genPos' = "exit"
  /\ UNCHANGED <<sgConfig, recordCh, recordChClosed, stopChClosed, closed,
                 mu, wg, recordID, closePos, sgReads>>
  /\ UNCHANGED <<compareVars, cmpVars, schemaVars, detVars>>

\* faulty variant: the send does not listen to stopCh
GenSend_Deaf ==
  /\ genPos = "send"
  /\ Len(recordCh) < sgConfig.BufferSize
  /\ sgConfig.MaxRecords > 0 \/ recordID <= MaxRecordsBound + 1
  /\ recordCh' = Append(recordCh, recordID)
  /\ recordID' = recordID + 1
  /\ genPos' = "top"
  /\ UNCHANGED <<sgConfig, recordChClosed, stopChClosed, closed, mu, wg,
                 closePos, sgReads>>
  /\ UNCHANGED <<compareVars, cmpVars, schemaVars, detVars>>

\* generateRecords, the select on the send to recordCh and stopCh
GenSend ==
  /\ genPos = "send"
  /\ \/ /\ Len(recordCh) < sgConfig.BufferSize
        /\ sgConfig.MaxRecords > 0 \/ recordID <= MaxRecordsBound + 1
        /\ recordCh' = Append(recordCh, recordID)
        /\ recordID' = recordID + 1
        /\ genPos' = "top"
     \/ /\ stopChClosed
        /\ genPos' = "exit"
        /\ UNCHANGED <<recordCh, recordID>>
  /\ UNCHANGED <<sgConfig, recordChClosed, stopChClosed, closed, mu, wg,
                 closePos, sgReads>>
  /\ UNCHANGED <<compareVars, cmpVars, schemaVars, detVars>>

\* generateRecords returns: the deferred close(recordCh)
GenCloseCh ==
  /\ genPos = "exit"
  /\ recordChClosed' = TRUE
  /\ genPos' = "closedCh"
  /\ UNCHANGED <<sgConfig, recordCh, stopChClosed, closed, mu, wg, recordID,
                 closePos, sgReads>>
  /\ UNCHANGED <<compareVars, cmpVars, schemaVars, detVars>>

\* generateRecords returns: the deferred wg.Done()
GenDone ==
  /\ genPos = "closedCh"
  /\ wg' = wg - 1
  /\ genPos' = "done"
  /\ UNCHANGED <<sgConfig, recordCh, recordChClosed, stopChClosed, closed,
                 mu, recordID, closePos, sgReads>>
  /\ UNCHANGED <<compareVars, cmpVars, schemaVars, detVars>>

\* Read: the select on recordCh and stopCh
StreamRead ==
  /\ Len(sgReads) < MaxReads
  /\ \/ /\ recordCh # <<>>
        /\ sgReads' = Append(sgReads, [out |-> "record", id |-> Head(recordCh)])
        /\ recordCh' = Tail(recordCh)
     \/ /\ recordCh = <<>>
        /\ recordChClosed
        /\ sgReads' = Append(sgReads, [out |-> "EOF", id |-> 0])
        /\ UNCHANGED recordCh
     \/ /\ stopChClosed
        /\ sgReads' = Append(sgReads, [out |-> "EOF", id |-> 0])
        /\ UNCHANGED recordCh
  /\ UNCHANGED <<sgConfig, recordChClosed, stopChClosed, closed, mu, wg,
                 recordID, genPos, closePos>>
  /\ UNCHANGED <<compareVars, cmpVars, schemaVars, detVars>>

\* Close is called
CloseCall(c) ==
  /\ closePos[c] = "idle"
  /\ closePos' = [closePos EXCEPT ![c] = "lock"]
  /\ UNCHANGED <<sgConfig, recordCh, recordChClosed, stopChClosed, closed,
                 mu, wg, recordID, genPos, sgReads>>
  /\ UNCHANGED <<compareVars, cmpVars, schemaVars, detVars>>

\* Close: mu.Lock(), then the early return of a generator already closed,
\* or closed = true and close(stopCh)
CloseEnter(c) ==
  /\ closePos[c] = "lock"
  /\ mu = 0
  /\ IF closed
     THEN /\ closePos' = [closePos EXCEPT ![c] = "returned"]
          /\ UNCHANGED <<mu, closed, stopChClosed>>
     ELSE /\ mu' = c
          /\ closed' = TRUE
          /\ stopChClosed' = TRUE
          /\ closePos' = [closePos EXCEPT ![c] = "wait"]
  /\ UNCHANGED <<sgConfig, recordCh, recordChClosed, wg, recordID, genPos,
                 sgReads>>
  /\ UNCHANGED <<compareVars, cmpVars, schemaVars, detVars>>

\* Close: wg.Wait() returns
CloseWait(c) ==
  /\ closePos[c] = "wait"
  /\ wg = 0
  /\ closePos' = [closePos EXCEPT ![c] = "drain"]
  /\ UNCHANGED <<sgConfig, recordCh, recordChClosed, stopChClosed, closed,
                 mu, wg, recordID, genPos, sgReads>>
  /\ UNCHANGED <<compareVars, cmpVars, schemaVars, detVars>>

\* Close: one iteration of the loop over recordCh, or its end with the
\* deferred mu.Unlock() and the return
CloseDrain(c) ==
  /\ closePos[c] = "drain"
  /\ \/ /\ recordCh # <<>>
        /\ recordCh' = Tail(recordCh)
        /\ UNCHANGED <<mu, closePos>>
     \/ /\ recordCh = <<>>
        /\ recordChClosed
        /\ mu' = 0
        /\ closePos' = [closePos EXCEPT ![c] = "returned"]
        /\ UNCHANGED recordCh
  /\ UNCHANGED <<sgConfig, recordChClosed, stopChClosed, closed, wg,
                 recordID, genPos, sgReads>>
  /\ UNCHANGED <<compareVars, cmpVars, schemaVars, detVars>>

NextStream ==
  \/ GenLoopTop
  \/ GenRateLimit
  \/ GenSend
  \/ GenCloseCh
  \/ GenDone
  \/ StreamRead
  \/ \E c \in Closers : CloseCall(c)
  \/ \E c \in Closers : CloseEnter(c)
  \/ \E c \in Closers : CloseWait(c)
  \/ \E c \in Closers : CloseDrain(c)

SpecStream == InitStream /\ [][NextStream]_vars

\* the goroutine and every call of Close under way keep being scheduled, and
\* the ticker keeps ticking; nobody is bound to call Read or Close
SpecStreamFair ==
  /\ SpecStream
  /\ WF_vars(GenLoopTop)
  /\ WF_vars(GenRateLimit)
  /\ WF_vars(GenSend)
  /\ WF_vars(GenCloseCh)
  /\ WF_vars(GenDone)
  /\ \A c \in Closers :
       WF_vars(CloseEnter(c)) /\ WF_vars(CloseWait(c)) /\ WF_vars(CloseDrain(c))

(***************************************************************************)
(* Properties of Compare.                                                  *)
(***************************************************************************)
\* the latest periodic result was computed from the maps as they are now
FreshReport == lastRead.out = "record" /\ checked.cb # "none"

\* C1: the result returned by Compare lists in KeysOnlyInSource1, each once,
\* exactly the keys stored from source1 that are not stored from source2, and
\* in KeysOnlyInSource2 exactly the keys stored from source2 that are not
\* stored from source1.
C1_KeysOnlyAreSetDifferences ==
  pc = "done" =>
    /\ ToSet(result.KeysOnlyInSource1)
         = (DOMAIN source1Records) \ (DOMAIN source2Records)
    /\ ToSet(result.KeysOnlyInSource2)
         = (DOMAIN source2Records) \ (DOMAIN source1Records)
    /\ Len(result.KeysOnlyInSource1)
         = Cardinality(ToSet(result.KeysOnlyInSource1))
    /\ Len(result.KeysOnlyInSource2)
         = Cardinality(ToSet(result.KeysOnlyInSource2))

C1_Witness ==
  /\ pc = "done"
  /\ result.KeysOnlyInSource1 # <<>>
  /\ result.KeysOnlyInSource2 # <<>>
  /\ result.MatchingKeys > 0

\* the two records stored under key k differ in some field: the field is
\* missing on one side or valuesEqual rejects the two values
RecordsDiffer(k) ==
  \E f \in (DOMAIN source1Records[k]) \cup (DOMAIN source2Records[k]) :
    \/ f \notin DOMAIN source1Records[k]
    \/ f \notin DOMAIN source2Records[k]
    \/ ~valuesEqual(source1Records[k][f], source2Records[k][f])

CountsAgree(r) ==
  LET both == (DOMAIN source1Records) \cap (DOMAIN source2Records)
  IN /\ r.MatchingKeys = Cardinality(both)
     /\ r.MatchingKeys = r.IdenticalRows + Cardinality(DOMAIN r.ValueDiffs)
     /\ \A k \in DOMAIN r.ValueDiffs : Len(r.ValueDiffs[k]) >= 1
     /\ \A k \in both : (k \in DOMAIN r.ValueDiffs) <=> RecordsDiffer(k)
     /\ r.IdenticalRows = Cardinality({k \in both : ~RecordsDiffer(k)})

\* C2: in every ComparisonResult, periodic or final, MatchingKeys is the
\* number of keys in both key maps, every such key is either an identical row
\* or a ValueDiffs entry, never both, so MatchingKeys = IdenticalRows + number
\* of ValueDiffs keys, and no ValueDiffs entry has an empty diff list.
C2_MatchingKeysPartition ==
  /\ FreshReport => CountsAgree(lastReport)
  /\ pc = "done" => CountsAgree(result)

C2_Witness ==
  /\ FreshReport
  /\ lastReport.IdenticalRows >= 1
  /\ DOMAIN lastReport.ValueDiffs # {}

KeySetsDisjoint(r) ==
  LET vd == DOMAIN r.ValueDiffs
      k1 == ToSet(r.KeysOnlyInSource1)
      k2 == ToSet(r.KeysOnlyInSource2)
  IN /\ vd \subseteq (DOMAIN source1Records) \cap (DOMAIN source2Records)
     /\ k1 \cap k2 = {}
     /\ k1 \cap vd = {}
     /\ k2 \cap vd = {}

\* C3: in every ComparisonResult, periodic or final, every key of ValueDiffs
\* is in both key maps when the result is computed, and KeysOnlyInSource1,
\* KeysOnlyInSource2 and the ValueDiffs keys are pairwise disjoint.
C3_KeySetsDisjoint ==
  /\ FreshReport => KeySetsDisjoint(lastReport)
  /\ pc = "done" => KeySetsDisjoint(result)

C3_Witness ==
  /\ FreshReport
  /\ DOMAIN lastReport.ValueDiffs # {}
  /\ lastReport.KeysOnlyInSource1 # <<>>
  /\ lastReport.KeysOnlyInSource2 # <<>>

\* C5: no Read is issued on source2 before a Read on source1 returned
\* end-of-stream, none is issued on source1 after that, and the final result
\* exists only once the latest Read, on source2, returned end-of-stream.
C5_SequentialPhases ==
  /\ \A i \in 1..Len(readLog) :
       readLog[i].src = 2 =>
         \E j \in 1..(i - 1) : readLog[j] = [src |-> 1, out |-> "EOF"]
  /\ \A i \in 1..Len(readLog) :
       readLog[i] = [src |-> 1, out |-> "EOF"] =>
         \A j \in (i + 1)..Len(readLog) : readLog[j].src = 2
  /\ result # NoResult =>
       /\ Len(readLog) > 0
       /\ readLog[Len(readLog)] = [src |-> 2, out |-> "EOF"]

C5_Witness ==
  /\ pc = "done"
  /\ source1Count >= 1
  /\ source2Count >= 1

\* Compare has just read a record
ReadsRecord == readLog' # readLog /\ lastRead'.out = "record"

\* C6: a record without the key field is counted in RecordsProcessed and in
\* its source's count and leaves both key maps as they were; every record
\* with the key field is stored under the stringified key value.
C6_KeyedRecordsStored ==
  [][ReadsRecord =>
       LET record == lastRead'.record
           first == lastRead'.src = 1
           stored == IF first THEN source1Records' ELSE source2Records'
       IN /\ recordsProcessed' = recordsProcessed + 1
          /\ IF first THEN source1Count' = source1Count + 1
                      ELSE source2Count' = source2Count + 1
          /\ IF keyField \in DOMAIN record
             THEN /\ Sprintf(record[keyField]) \in DOMAIN stored
                  /\ stored[Sprintf(record[keyField])] = record
             ELSE /\ source1Records' = source1Records
                  /\ source2Records' = source2Records]_vars

\* the trigger predicate, from the time since the last report and the
\* records processed since the last report
TriggerDue(elapsed, since) ==
  /\ periodicConfig.Enabled
  /\ \/ periodicConfig.TimeInterval > 0 /\ elapsed >= periodicConfig.TimeInterval
     \/ periodicConfig.RecordInterval > 0 /\ since >= periodicConfig.RecordInterval

\* C7: the trigger is evaluated after every record read and fires exactly
\* when reporting is enabled and the time since the last report has reached
\* a positive time-interval or the records since the last report have
\* reached a positive record-interval; the callback is invoked only then,
\* and never when reporting is disabled or both intervals are 0.
C7_TriggerExact ==
  /\ [][IF ReadsRecord
        THEN LET due == TriggerDue(checked'.at - lastReportTime,
                                   recordsProcessed' - lastReportRecords)
             IN /\ checked'.fire <=> due
                /\ callbackCount' = callbackCount + 1 <=> (due /\ onPeriodicDiff)
                /\ callbackCount' = callbackCount <=> ~(due /\ onPeriodicDiff)
        ELSE callbackCount' = callbackCount]_vars
  /\ [](\/ periodicConfig.Enabled
           /\ (periodicConfig.TimeInterval # 0 \/ periodicConfig.RecordInterval # 0)
        \/ callbackCount = 0)

C7_Witness ==
  /\ checked.fire
  /\ callbackCount = 2
  /\ periodicConfig.TimeInterval > 0
  /\ recordsProcessed - lastReportRecords > 0
  /\ lastRead.src = 2

\* C8: every result handed to the periodic callback has IsPeriodicReport set,
\* the result Compare returns has it clear, and with reporting enabled, a
\* callback given and record-interval 1 the callback has been invoked as soon
\* as one record was read from either source.
C8_PeriodicFlag ==
  /\ callbackCount > 0 => lastReport.IsPeriodicReport
  /\ pc = "done" => ~result.IsPeriodicReport
  /\ (/\ periodicConfig.Enabled
      /\ periodicConfig.RecordInterval = 1
      /\ onPeriodicDiff
      /\ recordsProcessed >= 1) => callbackCount >= 1

C8_Witness ==
  /\ pc = "done"
  /\ periodicConfig.RecordInterval = 1
  /\ source1Count = 0
  /\ callbackCount >= 1

\* C9: when the periodic callback returns an error, in either phase, Compare
\* returns that error and no result, issues no further Read and invokes the
\* callback no more.
C9_CallbackErrorAborts ==
  /\ [](checked.cb \in CallbackErrors =>
          /\ pc = "failed"
          /\ err = Errorf("error in periodic diff callback", checked.cb)
          /\ result = NoResult)
  /\ [][checked.cb \in CallbackErrors =>
          /\ readLog' = readLog
          /\ callbackCount' = callbackCount
          /\ result' = NoResult]_vars

C9_Witness ==
  /\ checked.cb \in CallbackErrors
  /\ lastRead.src = 2
  /\ callbackCount >= 2

\* C10: a Read that fails with anything but end-of-stream makes Compare
\* return at once an error naming the source, no result, with no further Read
\* and no further callback; after a failure of source1, source2 is never
\* read; end-of-stream is never reported as an error.
C10_ReadErrorAborts ==
  /\ [](lastRead.out = "ERR" =>
          /\ pc = "failed"
          /\ result = NoResult
          /\ err.cause \in ReadErrors
          /\ err.msg = (IF lastRead.src = 1 THEN "error reading from source1"
                        ELSE "error reading from source2")
          /\ lastRead.src = 1 =>
               \A i \in 1..Len(readLog) : readLog[i].src = 1)
  /\ [](lastRead.out = "EOF" => err = NoError)
  /\ [][lastRead.out = "ERR" =>
          /\ readLog' = readLog
          /\ callbackCount' = callbackCount
          /\ result' = NoResult]_vars

C10_Witness ==
  /\ lastRead.out = "ERR"
  /\ lastRead.src = 1
  /\ source1Count >= 1
  /\ callbackCount >= 1

\* the trigger's since-last-report state is assigned a new value
ReportStateChanges ==
  lastReportTime' # lastReportTime \/ lastReportRecords' # lastReportRecords

\* C11 as claimed: the since-last-report state (last report time, record
\* count at the last report) changes only in a step where the trigger fired
\* and the callback was invoked and returned success.
C11_ResetOnlyAfterCallbackSuccess ==
  [][ReportStateChanges =>
       /\ ReadsRecord
       /\ checked'.fire
       /\ checked'.cb = "ok"
       /\ callbackCount' = callbackCount + 1]_vars

\* C11 as amended: the since-last-report state changes only in a step where
\* a record was read and the trigger fired, and then either no callback was
\* given or the callback was invoked and returned success.
C11_ResetOnlyAfterFireWithoutError ==
  [][ReportStateChanges =>
       /\ ReadsRecord
       /\ checked'.fire
       /\ pc' # "failed"
       /\ IF onPeriodicDiff
          THEN checked'.cb = "ok" /\ callbackCount' = callbackCount + 1
          ELSE checked'.cb = "none" /\ callbackCount' = callbackCount]_vars

C11_Witness ==
  /\ ~onPeriodicDiff
  /\ checked.fire
  /\ lastReportRecords = recordsProcessed
  /\ lastReportRecords > 0
  /\ lastReportTime > 0

\* C12: the final result is determined by the records read, the key field
\* and the configuration: every result generateFinalResult can produce from
\* the state Compare ends in, whatever the iteration order of its maps, is
\* the result returned, lists in the same order included.
C12_FinalResultDetermined ==
  pc = "done" =>
    \A r \in generateFinalResult(source1Records, source2Records,
                                 recordsProcessed, source1Count,
                                 source2Count) : r = result


\* C26: every snapshot handed to the callback while source1 is being drained
\* has Source2Records = 0, MatchingKeys = 0, IdenticalRows = 0, no ValueDiffs
\* and no KeysOnlyInSource2, and lists in KeysOnlyInSource1, each once, every
\* key stored so far from source1.
C26_Phase1SnapshotOnlySource1 ==
  (FreshReport /\ lastRead.src = 1) =>
    /\ lastReport.Source2Records = 0
    /\ lastReport.MatchingKeys = 0
    /\ lastReport.IdenticalRows = 0
    /\ DOMAIN lastReport.ValueDiffs = {}
    /\ lastReport.KeysOnlyInSource2 = <<>>
    /\ ToSet(lastReport.KeysOnlyInSource1) = DOMAIN source1Records
    /\ Len(lastReport.KeysOnlyInSource1) = Cardinality(DOMAIN source1Records)

C26_Witness ==
  /\ FreshReport
  /\ lastRead.src = 1
  /\ pc = "phase1"
  /\ Len(lastReport.KeysOnlyInSource1) = 2
  /\ lastReport.Source1Records = 2

\* the keys a result names as present for source1 and for source2
NamedKeys1(r) == ToSet(r.KeysOnlyInSource1) \cup DOMAIN r.ValueDiffs

NamedKeys2(r) == ToSet(r.KeysOnlyInSource2) \cup DOMAIN r.ValueDiffs

\* result r reports key k as present for the source whose only-in list is
\* only and whose map is m, other being the map of the other source
StillPresent(r, k, only, other) ==
  \/ k \in ToSet(only)
  \/ k \in DOMAIN other /\ r.MatchingKeys >= 1

\* C27: no step of Compare removes a key from either key map; the keys the
\* latest snapshot named for a source stay in that source's map, every
\* snapshot that replaces it reports them as present for that source, and so
\* does the final result.
C27_KeyMapsOnlyGrow ==
  /\ [][/\ DOMAIN source1Records \subseteq DOMAIN source1Records'
        /\ DOMAIN source2Records \subseteq DOMAIN source2Records'
        /\ (callbackCount > 0 /\ callbackCount' = callbackCount + 1) =>
             /\ \A k \in NamedKeys1(lastReport) :
                  StillPresent(lastReport', k, lastReport'.KeysOnlyInSource1,
                               source2Records')
             /\ \A k \in NamedKeys2(lastReport) :
                  StillPresent(lastReport', k, lastReport'.KeysOnlyInSource2,
                               source1Records')]_vars
  /\ [](callbackCount > 0 =>
          /\ NamedKeys1(lastReport) \subseteq DOMAIN source1Records
          /\ NamedKeys2(lastReport) \subseteq DOMAIN source2Records)
  /\ []((callbackCount > 0 /\ pc = "done") =>
          /\ \A k \in NamedKeys1(lastReport) :
               StillPresent(result, k, result.KeysOnlyInSource1,
                            source2Records)
          /\ \A k \in NamedKeys2(lastReport) :
               StillPresent(result, k, result.KeysOnlyInSource2,
                            source1Records))

C27_Witness ==
  /\ pc = "done"
  /\ callbackCount >= 2
  /\ lastReport.KeysOnlyInSource1 # <<>>
  /\ DOMAIN lastReport.ValueDiffs # {}
  /\ lastReport.RecordsProcessed < result.RecordsProcessed
  /\ Cardinality(DOMAIN source1Records) = 2

\* the counts of result r add up and bound its numbers of distinct keys
CountsBound(r) ==
  /\ r.RecordsProcessed = r.Source1Records + r.Source2Records
  /\ Len(r.KeysOnlyInSource1) + r.MatchingKeys <= r.Source1Records
  /\ Len(r.KeysOnlyInSource2) + r.MatchingKeys <= r.Source2Records

\* C28: in every ComparisonResult, periodic or final, RecordsProcessed is
\* Source1Records + Source2Records, KeysOnlyInSource1 plus MatchingKeys is at
\* most Source1Records and KeysOnlyInSource2 plus MatchingKeys is at most
\* Source2Records.
C28_CountsAddUp ==
  /\ callbackCount > 0 => CountsBound(lastReport)
  /\ pc = "done" => CountsBound(result)

C28_Witness ==
  /\ pc = "done"
  /\ callbackCount > 0
  /\ lastReport.Source2Records >= 1
  /\ result.MatchingKeys >= 1
  /\ Len(result.KeysOnlyInSource1) + result.MatchingKeys < result.Source1Records
  /\ Len(result.KeysOnlyInSource2) + result.MatchingKeys = result.Source2Records

\* the diff list of result r for key k is one compareRecords can return for
\* the two records now stored under k
DiffOfStored(r, k) ==
  IF DiffFields(source1Records[k], source2Records[k]) = {}
  THEN k \notin DOMAIN r.ValueDiffs
  ELSE /\ k \in DOMAIN r.ValueDiffs
       /\ r.ValueDiffs[k] \in compareRecords(source1Records[k],
                                             source2Records[k])

\* C29: every record read that has a key is counted and replaces whatever
\* its source stored under that key before, every other stored record is
\* left as it was, and the ValueDiffs of every result compare, for a key of
\* both sources, the two records stored last under it.
C29_LastRecordOfKeyWins ==
  /\ [][ReadsRecord =>
          LET record == lastRead'.record
              key == getRecordKey(keyField, record)
              first == lastRead'.src = 1
              before == IF first THEN source1Records ELSE source2Records
              after == IF first THEN source1Records' ELSE source2Records'
          IN key # "" =>
               /\ recordsProcessed' = recordsProcessed + 1
               /\ IF first
                  THEN /\ source1Count' = source1Count + 1
                       /\ source2Records' = source2Records
                  ELSE /\ source2Count' = source2Count + 1
                       /\ source1Records' = source1Records
               /\ DOMAIN after = (DOMAIN before) \cup {key}
               /\ after[key] = record
               /\ \A k \in (DOMAIN before) \ {key} : after[k] = before[k]]_vars
  /\ [][ReadsRecord \/ (source1Records' = source1Records
                        /\ source2Records' = source2Records)]_vars
  /\ [](FreshReport =>
          \A k \in (DOMAIN source1Records) \cap (DOMAIN source2Records) :
            DiffOfStored(lastReport, k))
  /\ [](pc = "done" =>
          \A k \in (DOMAIN source1Records) \cap (DOMAIN source2Records) :
            DiffOfStored(result, k))

C29_Witness ==
  /\ pc = "phase2"
  /\ lastRead = [src |-> 2, out |-> "record", record |-> RecB]
  /\ source2Count = 2
  /\ callbackCount >= 1
  /\ lastReport.Source2Records = 1
  /\ "1" \in NamedKeys2(lastReport)
  /\ source2Records = [x \in {"1"} |-> RecB]
  /\ "1" \in DOMAIN source1Records

\* C30: with reporting enabled, time-interval 0, record-interval N > 0 and a
\* callback that has not failed, after T records from the two sources the
\* callback has been invoked floor(T / N) times, the latest invocation, the
\* k-th, carried RecordsProcessed = k * N, and the count since the last
\* report is T - k * N in either phase, never restarted at the boundary.
C30_CallbackEveryNRecords ==
  (/\ periodicConfig.Enabled
   /\ periodicConfig.TimeInterval = 0
   /\ periodicConfig.RecordInterval > 0
   /\ onPeriodicDiff
   /\ checked.cb \notin CallbackErrors) =>
    LET N == periodicConfig.RecordInterval
    IN /\ callbackCount = recordsProcessed \div N
       /\ lastReportRecords = callbackCount * N
       /\ recordsProcessed - lastReportRecords = recordsProcessed % N
       /\ callbackCount > 0 => lastReport.RecordsProcessed = callbackCount * N

C30_Witness ==
  /\ periodicConfig.Enabled
  /\ periodicConfig.TimeInterval = 0
  /\ periodicConfig.RecordInterval = 2
  /\ onPeriodicDiff
  /\ checked.cb = "ok"
  /\ source1Count = 1
  /\ source2Count = 1
  /\ callbackCount = 1
  /\ lastReport.Source2Records = 1

(***************************************************************************)
(* Properties of schema generation.                                        *)
(***************************************************************************)
NonNull(values) == {values[i] : i \in 1..Len(values)} \ {Nil}

\* the bound on the sample the caller asked for
SampleBound ==
  IF genSampler.present /\ genSampler.SampleSize > 0
  THEN genSampler.SampleSize
  ELSE 1000

\* the Reads so far that returned a record
RecordReads ==
  IF genLastOut \in {"eof", "error"} THEN genReads - 1 ELSE genReads

C14_EmptySourceEmptySchema ==
  (genReads = 1 /\ genLastOut = "eof") =>
    /\ genPc = "done"
    /\ genSchema = [Fields |-> EmptyMap]
    /\ genErr = NoError

\* the source is empty and the configuration names an unrecognized mode
C14_Witness ==
  /\ genReads = 1
  /\ genLastOut = "eof"
  /\ genPattern.Enabled
  /\ genPattern.Mode = "bogus"
  /\ genSchema = [Fields |-> EmptyMap]

\* enabled with an unrecognized mode, or online without credentials
InvalidPattern(cfg) ==
  /\ cfg.present
  /\ cfg.Enabled
  /\ \/ cfg.Mode \notin {"offline", "online"}
     \/ cfg.Mode = "online" /\ cfg.OnlineAPI # "key"

\* C15: with an invalid pattern-detection configuration no Read is ever
\* issued on the source, and generation ends in the configuration error.
C15_InvalidConfigFailsBeforeRead ==
  InvalidPattern(genPattern) =>
    /\ genReads = 0
    /\ genPc # "sampling" =>
         /\ genPc = "failed"
         /\ genErr.msg = "failed to create pattern detector"

\* the detector the generator works with
GenDetector == CreateDetector(genPattern).detector

\* the values collected from the sample, by path
GenFieldValues == CollectAll(genRecords, 1, Len(genRecords))

\* C16: when generation is done over a non-empty sample, no error is
\* returned, every collected field is in the Schema with its inferred type,
\* a field whose detection failed has an empty matcher list, and every
\* other field has the matchers the detector returned for it.
C16_DetectionFailureDegradesField ==
  (genPc = "done" /\ genRecords # <<>>) =>
    /\ genErr = NoError
    /\ DOMAIN genSchema.Fields = DOMAIN GenFieldValues
    /\ genWarnings \subseteq DOMAIN GenFieldValues
    /\ \A name \in DOMAIN GenFieldValues :
          LET field == genSchema.Fields[name]
              fieldType == inferType(GenFieldValues[name])
          IN /\ field.Type = fieldType
             /\ name \in genWarnings => field.Matchers = <<>>
             /\ name \notin genWarnings =>
                  \E o \in DetectOutcomes(GenDetector, fieldType,
                                          GenFieldValues[name]) :
                     ~o.failed /\ field.Matchers = o.matchers

\* detection failed for id and gave a pattern for x
C16_Witness ==
  /\ genPc = "done"
  /\ genRecords # <<>>
  /\ genWarnings = {"id"}
  /\ genSchema.Fields["id"].Matchers = <<>>
  /\ genSchema.Fields["id"].Type = "string"
  /\ genSchema.Fields["x"].Matchers # <<>>

\* the values, null ones included, the sampled records hold for a field
SampledValues(name) ==
  LET having == SelectSeq(genRecords, LAMBDA r : name \in DOMAIN r)
  IN [i \in 1..Len(having) |-> having[i][name]]

\* C18: in the generated Schema a field that is null in every sampled
\* record has type unknown, and a field that is null in some records only
\* has the type inferred from its non-null values.
C18_NullFieldsTyped ==
  genPc = "done" =>
    \A name \in UNION {DOMAIN genRecords[i] : i \in 1..Len(genRecords)} :
       /\ name \in DOMAIN genSchema.Fields
       /\ genSchema.Fields[name].Type =
            IF NonNull(SampledValues(name)) = {} THEN "unknown"
            ELSE inferType(SelectSeq(SampledValues(name),
                                     LAMBDA v : v # Nil))

(***************************************************************************)
(* Properties of inferType.                                                *)
(***************************************************************************)
Categories == <<"object", "array", "numeric", "datetime">>

\* value v satisfies the category
Satisfies(cat, v) ==
  CASE cat = "object" -> v.t = "map"
    [] cat = "array" -> v.t = "arr"
    [] cat = "numeric" -> Sprintf(v) \in NumericTexts
    [] cat = "datetime" ->
         \E j \in 1..Len(dateTimeLayouts) :
            Sprintf(v) \in LayoutTexts(dateTimeLayouts[j])

\* the positions in Categories of the categories every non-null value
\* satisfies
SatisfiedByAll(values) ==
  {c \in 1..Len(Categories) :
     \A v \in NonNull(values) : Satisfies(Categories[c], v)}

RECURSIVE Reached(_, _)
Reached(v, path) ==
  CASE v.t = "nil" -> {}
    [] v.t = "map" ->
         {<<path, v>>} \cup
         UNION {Reached(v.m[k], path \o "." \o k) : k \in DOMAIN v.m}
    [] v.t = "arr" ->
         {<<path, v>>} \cup
         UNION {Reached(v.a[i], path \o "[]") : i \in 1..Len(v.a)}
    [] OTHER -> {<<path, v>>}

\* the same for the fields of a root record
ReachedInRecord(r) == UNION {Reached(r[k], k) : k \in DOMAIN r}

\* C17: when CollectFieldValues has finished, the paths recorded are exactly
\* the paths of the non-null values reached (a top-level field under its
\* name, a child under parent.key, an element under path[]), each path holds
\* exactly the values reached under it, and nothing else is recorded.
C17_PathsOfReachedValues ==
  flatQueue = <<>> =>
    /\ DOMAIN flatValues = {pv[1] : pv \in ReachedInRecord(flatRecord)}
    /\ \A p \in DOMAIN flatValues :
          ToSet(flatValues[p]) =
            {pv[2] : pv \in {x \in ReachedInRecord(flatRecord) : x[1] = p}}

(***************************************************************************)
(* Properties of the offline detector.                                     *)
(***************************************************************************)
\* the texts of the non-null values handed to the detector
OffTexts == LET nn == SelectSeq(offValues, LAMBDA v : v # Nil)
            IN [i \in 1..Len(nn) |-> Sprintf(nn[i])]

\* the categories in the order they are tried: the regular expression a
\* value is matched against and the pattern returned
PatternCategories ==
  <<[name |-> "email", match |-> emailRegex, pattern |-> emailRegex],
    [name |-> "phone", match |-> phoneRegex, pattern |-> phonePattern],
    [name |-> "url", match |-> urlRegex, pattern |-> urlRegex],
    [name |-> "ipv4", match |-> ipRegex, pattern |-> ipRegex],
    [name |-> "uuid", match |-> uuidRegex, pattern |-> uuidRegex]>>

\* how many of the texts match the category's regular expression (a UUID
\* in any letter case)
CategoryMatches(c) ==
  Cardinality({i \in 1..Len(OffTexts) :
     ToLower(OffTexts[i]) \in MatchingTexts(PatternCategories[c].match)})

\* the same, counting for phone only the texts of 7 characters or more
CategoryMatchesLong(c) ==
  Cardinality({i \in 1..Len(OffTexts) :
     /\ ToLower(OffTexts[i]) \in MatchingTexts(PatternCategories[c].match)
     /\ PatternCategories[c].name = "phone" => Len(OffTexts[i]) >= 7})

\* the sole matcher is the pattern of the first category in Cleared
FirstClearedWins(Cleared) ==
  \E c \in Cleared :
     /\ \A d \in Cleared : c <= d
     /\ offMatchers = <<[regex |-> PatternCategories[c].pattern]>>

\* C20 as claimed: the sole matcher is the canonical regex of the first of
\* email, phone, URL, IPv4, UUID that at least 80% of the non-null
\* stringified values match (4 of 5 clears, 2 of 3 does not), and there is
\* never more than one matcher.
C20_FirstCategoryWithAtLeast80 ==
  offDone =>
    LET Cleared == {c \in 1..Len(PatternCategories) :
                      /\ Len(OffTexts) > 0
                      /\ 5 * CategoryMatches(c) >= 4 * Len(OffTexts)}
    IN /\ Len(offMatchers) <= 1
       /\ Cleared # {} => FirstClearedWins(Cleared)

\* C20 as amended: a category is cleared when strictly more than 80% of
\* the non-null stringified values match it, a value counting for phone
\* only if it has 7 characters or more; the sole matcher is the canonical
\* regex of the first cleared category, there is no regex matcher when no
\* category is cleared, and there is never more than one matcher.
C20_FirstCategoryOver80 ==
  offDone =>
    LET Cleared == {c \in 1..Len(PatternCategories) :
                      /\ Len(OffTexts) > 0
                      /\ 5 * CategoryMatchesLong(c) > 4 * Len(OffTexts)}
    IN /\ Len(offMatchers) <= 1
       /\ Cleared # {} => FirstClearedWins(Cleared)
       /\ Cleared = {} =>
            \A i \in 1..Len(offMatchers) :
               "regex" \notin DOMAIN offMatchers[i]

\* four of five values are e-mail addresses: no regex matcher is returned
C20_Witness ==
  /\ offDone
  /\ Len(OffTexts) = 5
  /\ Cardinality({i \in 1..5 : OffTexts[i] = "a@b.co"}) = 4
  /\ offType = "string"
  /\ offMatchers = <<>>

(***************************************************************************)
(* Properties of the detector factory and of the detectors.                *)
(***************************************************************************)
\* none of the five regex categories of the offline detector applies to the
\* values that are not nil
NoRegexCategory(values) ==
  LET nonNil == SelectSeq(values, LAMBDA v : v # Nil)
      texts == [i \in 1..Len(nonNil) |-> Sprintf(nonNil[i])]
  IN /\ detectEmailPattern(texts) = ""
     /\ detectPhonePattern(texts) = ""
     /\ detectURLPattern(texts) = ""
     /\ detectIPPattern(texts) = ""
     /\ detectUUIDPattern(texts) = ""

\* the matchers the type of a field stands for
TypeFallback(fieldType) ==
  IF fieldType = "numeric" THEN <<[isNumeric |-> TRUE]>>
  ELSE IF fieldType = "datetime" THEN <<[isDateTime |-> TRUE]>>
  ELSE <<>>

\* the online detector got a reply that is the sentinel or empty
SentinelReply ==
  /\ detReply.kind = "text"
  /\ TrimSpace(detReply.text) \in {"NO_PATTERN", ""}

\* the list of values holds a value that is not nil
HasValue == \E i \in 1..Len(detValues) : detValues[i] # Nil

\* C21 as claimed: when no regex category applies, the offline detector, and
\* the online detector on a reply of NO_PATTERN or an empty reply, return
\* the matchers of the field type: IsNumeric alone for numeric, IsDateTime
\* alone for datetime, none for every other type.
C21_FallbackByType ==
  (detPc = "done" /\ NoRegexCategory(detValues)) =>
    /\ detDetector = "offline" =>
         detMatchers = TypeFallback(detType) /\ detErr = NoError
    /\ (detDetector = "online" /\ SentinelReply) =>
         detMatchers = TypeFallback(detType) /\ detErr = NoError

\* C21 as amended: for a list holding a value that is not nil to which no
\* regex category applies, the offline detector and the online detector on
\* a sentinel or empty reply return the same matchers, those of the field
\* type; for a list without such a value both return no matcher and no
\* error whatever the type, the online one without calling the API.
C21_FallbackByTypeOfNonNull ==
  detPc = "done" =>
    /\ (detDetector = "offline" /\ HasValue /\ NoRegexCategory(detValues)) =>
         /\ detMatchers = TypeFallback(detType)
         /\ detErr = NoError
         /\ \A text \in {"NO_PATTERN", ""} :
              OnlineDetectPatterns("key", detType, detValues,
                                   [kind |-> "text", text |-> text])
                = [matchers |-> detMatchers, err |-> NoError]
    /\ (detDetector = "online" /\ SentinelReply) =>
         /\ HasValue
         /\ detMatchers = TypeFallback(detType)
         /\ detErr = NoError
         /\ NoRegexCategory(detValues) =>
              detMatchers = OfflineDetectPatterns(detType, detValues)
    /\ (detDetector \in {"offline", "online"} /\ ~HasValue) =>
         /\ detMatchers = <<>>
         /\ detErr = NoError
         /\ detReply = NoReply

C21_Witness ==
  /\ detPc = "done"
  /\ detDetector = "online"
  /\ detReply = [kind |-> "text", text |-> "  NO_PATTERN "]
  /\ detType = "numeric"
  /\ detValues = <<Nil, IntV(12)>>
  /\ detMatchers = <<[isNumeric |-> TRUE]>>

\* C22: CreateDetector returns the no-op detector for an absent or disabled
\* configuration whatever its mode, the offline detector for enabled mode
\* offline, the online detector for enabled mode online with an API key, and
\* an error and no detector for enabled mode online without API settings or
\* key and for every other enabled mode; the no-op detector returns no
\* matcher and no error.
C22_FactoryCases ==
  detPc \in {"detect", "done", "failed"} =>
    LET made == IF detPc = "failed" THEN "error" ELSE detDetector
        failed == /\ detPc = "failed"
                  /\ detDetector = "none"
                  /\ detErr # NoError
    IN /\ made # "none"
       /\ made = "noop" <=> (~detConfig.present \/ ~detConfig.Enabled)
       /\ (detConfig.present /\ detConfig.Enabled) =>
            /\ detConfig.Mode = "offline" => made = "offline"
            /\ (/\ detConfig.Mode = "online"
                /\ detConfig.OnlineAPI \in {"key", "otherProvider"}) =>
                 made = "online"
            /\ (/\ detConfig.Mode = "online"
                /\ detConfig.OnlineAPI \in {"nil", "nokey"}) => failed
            /\ detConfig.Mode \notin {"offline", "online"} => failed
       /\ (detPc = "done" /\ detDetector = "noop") =>
            detMatchers = <<>> /\ detErr = NoError

C22_Witness ==
  /\ detPc = "done"
  /\ detDetector = "noop"
  /\ detConfig.present
  /\ detConfig.Mode = "bogus"
  /\ detValues = <<StrV("a@b.co"), StrV("a@b.co")>>
  /\ detType = "numeric"

\* C23: when the online detector called the API, a failure of the call
\* yields an error and no matcher; an answer whose text is neither empty nor
\* the sentinel yields the text as the only matcher, a regex, and no error
\* if it compiles, and an error and no matcher if it does not.
C23_OnlineReplyIsValidated ==
  (detPc = "done" /\ detDetector = "online" /\ detReply # NoReply) =>
    LET text == TrimSpace(detReply.text)
    IN /\ detReply.kind = "error" =>
            /\ detErr = Errorf("failed to call AI API", detReply.text)
            /\ detMatchers = <<>>
       /\ (detReply.kind = "text" /\ text \notin {"", "NO_PATTERN"}) =>
            IF regexpCompile(text)
            THEN detMatchers = <<[regex |-> text]>> /\ detErr = NoError
            ELSE detMatchers = <<>> /\ detErr # NoError

C23_Witness ==
  /\ detPc = "done"
  /\ detDetector = "online"
  /\ detReply = [kind |-> "text", text |-> "[a-"]
  /\ detErr # NoError
  /\ detMatchers = <<>>
  /\ detType = "numeric"

(***************************************************************************)
(* Properties of the stream generator.                                     *)
(***************************************************************************)
EndOfStream == [out |-> "EOF", id |-> 0]

\* the Reads so far that returned a record
RecordsRead == SelectSeq(sgReads, LAMBDA r : r.out = "record")

\* C24: with MaxRecords = N > 0 and no call of Close, the i-th Read returns
\* the record of id i for i <= N and end-of-stream for i > N; the records
\* read and those buffered are the ids 1, 2, ... generated so far in order,
\* the goroutine ends only after sending N records, and a Read has to wait
\* only while the goroutine is still at work.
C24_ExactlyNRecordsThenEOF ==
  (sgConfig.MaxRecords > 0 /\ \A c \in Closers : closePos[c] = "idle") =>
    LET N == sgConfig.MaxRecords
    IN /\ \A i \in 1..Len(sgReads) :
            sgReads[i] = IF i <= N THEN [out |-> "record", id |-> i]
                         ELSE EndOfStream
       /\ \A j \in 1..Len(recordCh) : recordCh[j] = Len(RecordsRead) + j
       /\ recordID = Len(RecordsRead) + Len(recordCh) + 1
       /\ recordID <= N + 1
       /\ genPos \in {"exit", "closedCh", "done"} => recordID = N + 1
       /\ recordChClosed <=> genPos \in {"closedCh", "done"}
       /\ ~stopChClosed

C24_Witness ==
  /\ sgConfig = [MaxRecords |-> 2, BufferSize |-> 1, RateLimited |-> TRUE]
  /\ \A c \in Closers : closePos[c] = "idle"
  /\ sgReads = <<[out |-> "record", id |-> 1], [out |-> "record", id |-> 2],
                 EndOfStream, EndOfStream>>

\* C25: every call of Close returns, whatever the goroutine, the Reads and
\* the other call of Close do; once a call has returned the goroutine has
\* ended, recordCh is closed and empty and every Read returns end-of-stream;
\* a call that finds the generator closed returns leaving it as it was.
C25_CloseAlwaysReturns ==
  /\ \A c \in Closers :
       (closePos[c] = "lock") ~> (closePos[c] = "returned")
  /\ []((\E c \in Closers : closePos[c] = "returned") =>
          /\ genPos = "done"
          /\ wg = 0
          /\ closed
          /\ stopChClosed
          /\ recordChClosed
          /\ recordCh = <<>>)
  /\ [][((\E c \in Closers : closePos[c] = "returned") /\ sgReads' # sgReads)
          => sgReads' = Append(sgReads, EndOfStream)]_vars
  /\ [][\A c \in Closers :
          (closed /\ closePos[c] = "lock" /\ closePos'[c] # "lock") =>
            /\ closePos'[c] = "returned"
            /\ UNCHANGED <<sgConfig, recordCh, recordChClosed, stopChClosed,
                           closed, mu, wg, recordID, genPos, sgReads>>]_vars

C25_Witness ==
  /\ \A c \in Closers : closePos[c] = "returned"
  /\ sgConfig = [MaxRecords |-> 0, BufferSize |-> 1, RateLimited |-> TRUE]
  /\ recordID = 3
  /\ sgReads = <<[out |-> "record", id |-> 1], EndOfStream>>

(***************************************************************************)
(* Properties of compareRecords.                                           *)
(***************************************************************************)
\* the fields compareRecords reported
Reported == {cmpDiffs[i].Field : i \in 1..Len(cmpDiffs)}

CmpUnion == (DOMAIN cmpRecord1) \cup (DOMAIN cmpRecord2)

\* C4 as claimed: a field of the union is reported exactly when it is missing
\* from one record or the stringified values differ; equal stringified
\* values are never reported, a null against the text of null included.
C4_DiffIffTextDiffers ==
  cmpDone =>
    \A f \in CmpUnion :
      f \in Reported <=>
        \/ f \notin DOMAIN cmpRecord1
        \/ f \notin DOMAIN cmpRecord2
        \/ Sprintf(cmpRecord1[f]) # Sprintf(cmpRecord2[f])

\* C4 as amended: a field of the union is reported, once, exactly when it is
\* missing from one record, or exactly one of the two values is null, or both
\* are non-null and their stringified values differ.
C4_DiffIffMissingNullOrTextDiffers ==
  cmpDone =>
    /\ Reported \subseteq CmpUnion
    /\ Len(cmpDiffs) = Cardinality(Reported)
    /\ \A f \in CmpUnion :
         f \in Reported <=>
           \/ f \notin DOMAIN cmpRecord1
           \/ f \notin DOMAIN cmpRecord2
           \/ (cmpRecord1[f] = Nil) # (cmpRecord2[f] = Nil)
           \/ /\ cmpRecord1[f] # Nil
              /\ cmpRecord2[f] # Nil
              /\ Sprintf(cmpRecord1[f]) # Sprintf(cmpRecord2[f])

C4_Witness ==
  /\ cmpDone
  /\ cmpRecord1 = [id |-> IntV(1), v |-> Nil]
  /\ cmpRecord2 = [id |-> StrV("1"), v |-> StrV("<nil>")]
  /\ Reported = {"v"}

=============================================================================
